---------------------------- MODULE Spec2Model ----------------------------
(***************************************************************************)
(* A model of the data-analysis engine of vizplay-studio (lib/dataUtils):  *)
(* type inference, schema analysis, correlation, z-score outliers, insight *)
(* generation, filtering, grouping/aggregation and computed fields.        *)
(*                                                                         *)
(* JavaScript values are records [t, n, d, s]: t is the tag, n / d a       *)
(* finite number (n is 1/0 for a boolean), s the characters of a string.   *)
(* Strings are sequences of one-character strings, so that String(),       *)
(* Number(), join, split, toLowerCase and includes are computed.           *)
(* The numbers of a dataset are integers: on them the IEEE double          *)
(* operations + - * used by the code are exact.  Quotients and square      *)
(* roots are kept exactly, as n / d and as sign * sqrt(p / q); the         *)
(* rounding of IEEE doubles is not modelled.                               *)
(***************************************************************************)
EXTENDS Integers, Sequences, FiniteSets, TLC

\* data is the dataset: the argument of the library call of a behaviour, or
\* the dataset of the dashboard.  op, args and result tell the last call or
\* handler step, what it was given and what it gave.
VARIABLES data, op, args, result

\* The dashboard and its importer: schema is the state columns of the page
\* (the module uses the name columns for the locals of the library), charts
\* its charts, isLoading and jsonInput the loading flag and the text area of
\* the importer, upload the file of the upload that waits for its content.
VARIABLES schema, charts, isLoading, jsonInput, upload

\* The components of the page that keep a state of their own: modal is the
\* presentation modal (open is the flag isPresentationMode of the page, which
\* the modal gets as its prop open; currentSlide is its state), panel the
\* insight panel (its states insights and isGenerating), timers the callbacks
\* of setTimeout that wait to run, each with the dataset its closure holds.
VARIABLES modal, panel, timers

widgets == <<modal, panel, timers>>

ui == <<schema, charts, isLoading, jsonInput, upload, modal, panel, timers>>

vars ==
    <<data, op, args, result, schema, charts, isLoading, jsonInput, upload,
      modal, panel, timers>>

(***************************************************************************)
(* JavaScript values                                                       *)
(***************************************************************************)
Num(i) == [t |-> "num", n |-> i, d |-> 1, s |-> <<>>]

Inf == [t |-> "inf", n |-> 0, d |-> 1, s |-> <<>>]

NegInf == [t |-> "ninf", n |-> 0, d |-> 1, s |-> <<>>]

NaN == [t |-> "nan", n |-> 0, d |-> 1, s |-> <<>>]

Str(chars) == [t |-> "str", n |-> 0, d |-> 1, s |-> chars]

Null == [t |-> "null", n |-> 0, d |-> 1, s |-> <<>>]

Undef == [t |-> "undef", n |-> 0, d |-> 1, s |-> <<>>]

Bool(b) == [t |-> "bool", n |-> IF b THEN 1 ELSE 0, d |-> 1, s |-> <<>>]

IsNumber(v) == v.t \in {"num", "inf", "ninf", "nan"}

Abs(i) == IF i < 0 THEN -i ELSE i

Sign(i) == IF i < 0 THEN -1 ELSE IF i = 0 THEN 0 ELSE 1

Min2(a, b) == IF a <= b THEN a ELSE b

(***************************************************************************)
(* Characters and strings                                                  *)
(***************************************************************************)
DigitChars == <<"0", "1", "2", "3", "4", "5", "6", "7", "8", "9">>

DigitSet == {DigitChars[i] : i \in 1..Len(DigitChars)}

IsDigit(c) == c \in DigitSet

DigitVal(c) == (CHOOSE i \in 1..Len(DigitChars) : DigitChars[i] = c) - 1

UpperChars == <<"A", "B", "C", "D", "E", "F", "G", "H", "I", "J", "K", "L", "M",
                "N", "O", "P", "Q", "R", "S", "T", "U", "V", "W", "X", "Y", "Z">>

LowerChars == <<"a", "b", "c", "d", "e", "f", "g", "h", "i", "j", "k", "l", "m",
                "n", "o", "p", "q", "r", "s", "t", "u", "v", "w", "x", "y", "z">>

UpperSet == {UpperChars[i] : i \in 1..Len(UpperChars)}

LowerSet == {LowerChars[i] : i \in 1..Len(LowerChars)}

IsUpper(c) == c \in UpperSet

IsLower(c) == c \in LowerSet

\* the \w class of a regular expression
IsWordChar(c) == IsDigit(c) \/ IsUpper(c) \/ IsLower(c) \/ c = "_"

IsSpace(c) == c = " "

LowerChar(c) ==
    IF IsUpper(c)
    THEN LowerChars[CHOOSE i \in 1..Len(UpperChars) : UpperChars[i] = c]
    ELSE c

\* String.prototype.toLowerCase
toLowerCase(chars) == [i \in 1..Len(chars) |-> LowerChar(chars[i])]

\* String.prototype.includes
includes(hay, needle) ==
    \E k \in 0..(Len(hay) - Len(needle)) :
        \A i \in 1..Len(needle) : hay[k + i] = needle[i]

RECURSIVE NatToChars(_)
NatToChars(i) ==
    IF i < 10 THEN <<DigitChars[i + 1]>>
    ELSE Append(NatToChars(i \div 10), DigitChars[(i % 10) + 1])

IntToChars(i) == IF i < 0 THEN <<"-">> \o NatToChars(-i) ELSE NatToChars(i)

InfinityChars == <<"I", "n", "f", "i", "n", "i", "t", "y">>

\* String(v)
String(v) ==
    CASE v.t = "num" /\ v.d = 1 -> IntToChars(v.n)
      [] v.t = "inf" -> InfinityChars
      [] v.t = "ninf" -> <<"-">> \o InfinityChars
      [] v.t = "nan" -> <<"N", "a", "N">>
      [] v.t = "str" -> v.s
      [] v.t = "null" -> <<"n", "u", "l", "l">>
      [] v.t = "undef" -> <<"u", "n", "d", "e", "f", "i", "n", "e", "d">>
      [] v.t = "bool" -> IF v.n = 1 THEN <<"t", "r", "u", "e">>
                         ELSE <<"f", "a", "l", "s", "e">>

RECURSIVE TrimLeft(_)
TrimLeft(chars) ==
    IF chars # <<>> /\ IsSpace(Head(chars)) THEN TrimLeft(Tail(chars)) ELSE chars

RECURSIVE TrimRight(_)
TrimRight(chars) ==
    IF chars # <<>> /\ IsSpace(chars[Len(chars)])
    THEN TrimRight(SubSeq(chars, 1, Len(chars) - 1))
    ELSE chars

RECURSIVE DigitsToNat(_)
DigitsToNat(chars) ==
    IF chars = <<>> THEN 0
    ELSE 10 * DigitsToNat(SubSeq(chars, 1, Len(chars) - 1)) + DigitVal(chars[Len(chars)])

AllDigits(chars) == chars # <<>> /\ \A i \in 1..Len(chars) : IsDigit(chars[i])

\* The StringToNumber conversion on the string literals the model uses:
\* white space is trimmed, the empty string is 0, a signed decimal integer is
\* its value, [+-]Infinity is infinite, anything else is NaN.
StringToNumber(chars) ==
    LET tr == TrimRight(TrimLeft(chars))
        signed == tr # <<>> /\ Head(tr) \in {"+", "-"}
        body == IF signed THEN Tail(tr) ELSE tr
        neg == signed /\ Head(tr) = "-"
    IN  IF tr = <<>> THEN Num(0)
        ELSE IF AllDigits(body)
             THEN Num(IF neg THEN -DigitsToNat(body) ELSE DigitsToNat(body))
        ELSE IF body = InfinityChars THEN (IF neg THEN NegInf ELSE Inf)
        ELSE NaN

(***************************************************************************)
(* JavaScript numbers in arithmetic: exact rationals n / d (d > 0, lowest  *)
(* terms), +Infinity, -Infinity and NaN.                                   *)
(***************************************************************************)
RECURSIVE GCD(_, _)
GCD(a, b) == IF b = 0 THEN a ELSE GCD(b, a % b)

Q(n, d) ==
    LET g == GCD(Abs(n), Abs(d))
        sg == IF d < 0 THEN -1 ELSE 1
    IN  [t |-> "num", n |-> sg * (n \div g), d |-> sg * (d \div g)]

QInt(i) == [t |-> "num", n |-> i, d |-> 1]

QInf == [t |-> "inf", n |-> 0, d |-> 1]

QNegInf == [t |-> "ninf", n |-> 0, d |-> 1]

QNaN == [t |-> "nan", n |-> 0, d |-> 1]

\* isNaN applied to a number
isNaN(x) == x.t = "nan"

\* isFinite applied to a number
isFinite(x) == x.t = "num"

\* a number value as a number of the arithmetic
ToQ(v) == [t |-> v.t, n |-> v.n, d |-> v.d]

\* a number of the arithmetic as a value
FromQ(a) == [t |-> a.t, n |-> a.n, d |-> a.d, s |-> <<>>]

\* Number(v)
Number(v) ==
    CASE IsNumber(v) -> ToQ(v)
      [] v.t = "str" -> ToQ(StringToNumber(v.s))
      [] v.t = "null" -> QInt(0)
      [] v.t = "undef" -> QNaN
      [] v.t = "bool" -> QInt(v.n)

QSign(a) ==
    CASE a.t = "num" -> Sign(a.n)
      [] a.t = "inf" -> 1
      [] a.t = "ninf" -> -1
      [] a.t = "nan" -> 0

QNeg(a) ==
    CASE a.t = "num" -> [a EXCEPT !.n = -a.n]
      [] a.t = "inf" -> QNegInf
      [] a.t = "ninf" -> QInf
      [] a.t = "nan" -> QNaN

\* a + b
QAdd(a, b) ==
    IF a.t = "nan" \/ b.t = "nan" THEN QNaN
    ELSE IF a.t = "num" /\ b.t = "num" THEN Q(a.n * b.d + b.n * a.d, a.d * b.d)
    ELSE IF a.t = "num" THEN b
    ELSE IF b.t = "num" THEN a
    ELSE IF a.t = b.t THEN a
    ELSE QNaN

\* a - b
QSub(a, b) == QAdd(a, QNeg(b))

\* a * b
QMul(a, b) ==
    IF a.t = "nan" \/ b.t = "nan" THEN QNaN
    ELSE IF a.t = "num" /\ b.t = "num" THEN Q(a.n * b.n, a.d * b.d)
    ELSE IF QSign(a) * QSign(b) = 0 THEN QNaN
    ELSE IF QSign(a) * QSign(b) > 0 THEN QInf
    ELSE QNegInf

\* a / b
QDiv(a, b) ==
    IF a.t = "nan" \/ b.t = "nan" THEN QNaN
    ELSE IF a.t = "num" /\ b.t = "num"
         THEN IF b.n # 0 THEN Q(a.n * b.d, a.d * b.n)
              ELSE IF a.n = 0 THEN QNaN
              ELSE IF a.n > 0 THEN QInf ELSE QNegInf
    ELSE IF a.t = "num" THEN QInt(0)
    ELSE IF b.t # "num" THEN QNaN
    ELSE IF QSign(a) * (IF b.n < 0 THEN -1 ELSE 1) > 0 THEN QInf
    ELSE QNegInf

\* a < b (false when either is NaN)
QLt(a, b) ==
    /\ a.t # "nan"
    /\ b.t # "nan"
    /\ \/ a.t = "num" /\ b.t = "num" /\ a.n * b.d < b.n * a.d
       \/ a.t = "ninf" /\ b.t # "ninf"
       \/ b.t = "inf" /\ a.t # "inf"

QGt(a, b) == QLt(b, a)

QLeq(a, b) == a.t # "nan" /\ b.t # "nan" /\ ~QLt(b, a)

QGeq(a, b) == QLeq(b, a)

(***************************************************************************)
(* Results of Math.sqrt and of a division by one: sgn * sqrt(p / q), kept  *)
(* exactly (p, q in lowest terms), or infinite, or NaN.                    *)
(***************************************************************************)
Root(sgn, p, q) ==
    LET g == GCD(p, q)
    IN  IF p = 0 THEN [cls |-> "fin", sgn |-> 0, p |-> 0, q |-> 1]
        ELSE [cls |-> "fin", sgn |-> sgn, p |-> p \div g, q |-> q \div g]

RZero == [cls |-> "fin", sgn |-> 0, p |-> 0, q |-> 1]

ROne == [cls |-> "fin", sgn |-> 1, p |-> 1, q |-> 1]

RNaN == [cls |-> "nan", sgn |-> 0, p |-> 0, q |-> 1]

RInf(sgn) == [cls |-> "inf", sgn |-> sgn, p |-> 1, q |-> 1]

\* Math.sqrt(a)
Sqrt(a) ==
    CASE a.t = "nan" -> RNaN
      [] a.t = "ninf" -> RNaN
      [] a.t = "inf" -> RInf(1)
      [] a.t = "num" -> IF a.n < 0 THEN RNaN ELSE Root(1, a.n, a.d)

\* a / r for a number a and a root r
DivByRoot(a, r) ==
    IF a.t = "nan" \/ r.cls = "nan" THEN RNaN
    ELSE IF a.t = "num" /\ r.cls = "fin"
         THEN IF r.sgn # 0 THEN Root(Sign(a.n) * r.sgn, a.n * a.n * r.q, a.d * a.d * r.p)
              ELSE IF a.n = 0 THEN RNaN
              ELSE RInf(Sign(a.n))
    ELSE IF a.t = "num" THEN RZero
    ELSE IF r.cls = "inf" THEN RNaN
    ELSE RInf(QSign(a) * (IF r.sgn < 0 THEN -1 ELSE 1))

\* Math.abs(r)
RAbs(r) == [r EXCEPT !.sgn = Abs(r.sgn)]

\* r > a for a root r and a number a
RGtQ(r, a) ==
    CASE r.cls = "nan" \/ a.t = "nan" -> FALSE
      [] r.cls # "nan" /\ a.t = "inf" -> FALSE
      [] r.cls # "nan" /\ a.t = "ninf" -> ~(r.cls = "inf" /\ r.sgn < 0)
      [] r.cls = "inf" /\ a.t = "num" -> r.sgn > 0
      [] r.cls = "fin" /\ a.t = "num" ->
           IF a.n < 0
           THEN r.sgn >= 0 \/ r.p * a.d * a.d < a.n * a.n * r.q
           ELSE r.sgn > 0 /\ r.p * a.d * a.d > a.n * a.n * r.q

\* the sign of b - a for two roots that are not NaN
RCompare(a, b) ==
    LET rank(r) == IF r.cls = "inf" THEN 2 * r.sgn ELSE r.sgn
    IN  IF rank(a) # rank(b) THEN Sign(rank(b) - rank(a))
        ELSE IF a.cls = "inf" THEN 0
        ELSE a.sgn * Sign(b.p * a.q - a.p * b.q)

\* the strict equality === of two values
StrictEquals(a, b) == a.t # "nan" /\ b.t # "nan" /\ a = b

(***************************************************************************)
(* Rows (DataRow): the key/value pairs of an object in insertion order.    *)
(* A dataset is a sequence of rows.                                        *)
(***************************************************************************)
HasKey(row, k) == \E i \in 1..Len(row) : row[i].k = k

\* row[k]: undefined when the row has no such key
Get(row, k) ==
    IF HasKey(row, k) THEN row[CHOOSE i \in 1..Len(row) : row[i].k = k].v ELSE Undef

\* row[k] = v
Put(row, k, v) ==
    IF HasKey(row, k)
    THEN [i \in 1..Len(row) |-> IF row[i].k = k THEN [k |-> k, v |-> v] ELSE row[i]]
    ELSE Append(row, [k |-> k, v |-> v])

\* Object.keys(row)
ObjectKeys(row) == [i \in 1..Len(row) |-> row[i].k]

RECURSIVE SumQ(_)
\* values.reduce((sum, v) => sum + v, 0)
SumQ(values) ==
    IF values = <<>> THEN QInt(0)
    ELSE QAdd(SumQ(SubSeq(values, 1, Len(values) - 1)), values[Len(values)])

(***************************************************************************)
(* calculateCorrelation                                                    *)
(***************************************************************************)
\* the pairs [Number(row[col1]), Number(row[col2])] with neither NaN
CorrelationPairs(d, col1, col2) ==
    SelectSeq([i \in 1..Len(d) |-> <<Number(Get(d[i], col1)), Number(Get(d[i], col2))>>],
              LAMBDA pr : ~isNaN(pr[1]) /\ ~isNaN(pr[2]))

\* CorrelationQuotient without its test of the denominator
CorrelationQuotientUnguarded(numerator, denominator) == DivByRoot(numerator, denominator)

\* the denominator === 0 ? 0 : numerator / denominator of calculateCorrelation
CorrelationQuotient(numerator, denominator) ==
    IF denominator = RZero THEN RZero ELSE DivByRoot(numerator, denominator)

\* n * sumXY - sumX * sumY over the pairs
CorrelationNumerator(pairs) ==
    LET n == QInt(Len(pairs))
        xs == [i \in 1..Len(pairs) |-> pairs[i][1]]
        ys == [i \in 1..Len(pairs) |-> pairs[i][2]]
        sumX == SumQ(xs)
        sumY == SumQ(ys)
        sumXY == SumQ([i \in 1..Len(pairs) |-> QMul(xs[i], ys[i])])
    IN  QSub(QMul(n, sumXY), QMul(sumX, sumY))

\* Math.sqrt((n * sumX2 - sumX * sumX) * (n * sumY2 - sumY * sumY)) over the pairs
CorrelationDenominator(pairs) ==
    LET n == QInt(Len(pairs))
        xs == [i \in 1..Len(pairs) |-> pairs[i][1]]
        ys == [i \in 1..Len(pairs) |-> pairs[i][2]]
        sumX == SumQ(xs)
        sumY == SumQ(ys)
        sumX2 == SumQ([i \in 1..Len(pairs) |-> QMul(xs[i], xs[i])])
        sumY2 == SumQ([i \in 1..Len(pairs) |-> QMul(ys[i], ys[i])])
    IN  Sqrt(QMul(QSub(QMul(n, sumX2), QMul(sumX, sumX)),
                  QSub(QMul(n, sumY2), QMul(sumY, sumY))))

calculateCorrelation(d, col1, col2) ==
    LET pairs == CorrelationPairs(d, col1, col2)
    IN  IF Len(pairs) < 2 THEN RZero
        ELSE CorrelationQuotient(CorrelationNumerator(pairs), CorrelationDenominator(pairs))

(***************************************************************************)
(* findOutliers                                                            *)
(***************************************************************************)
\* data.map(row => Number(row[column])).filter(v => !isNaN(v))
NumericValues(d, column) ==
    SelectSeq([i \in 1..Len(d) |-> Number(Get(d[i], column))], LAMBDA v : ~isNaN(v))

\* values.reduce((sum, v) => sum + v, 0) / values.length
Mean(values) == QDiv(SumQ(values), QInt(Len(values)))

\* Math.sqrt(values.reduce((sum, v) => sum + Math.pow(v - mean, 2), 0) / values.length)
StdDev(values, mean) ==
    Sqrt(QDiv(SumQ([i \in 1..Len(values) |->
                        QMul(QSub(values[i], mean), QSub(values[i], mean))]),
              QInt(Len(values))))

\* IsOutlierRow without Math.abs
IsOutlierRowSigned(row, column, mean, stdDev, threshold) ==
    LET value == Number(Get(row, column))
    IN  IF isNaN(value) THEN FALSE
        ELSE RGtQ(DivByRoot(QSub(value, mean), stdDev), threshold)

\* IsOutlierRow with >= for >
IsOutlierRowInclusive(row, column, mean, stdDev, threshold) ==
    LET value == Number(Get(row, column))
        z == RAbs(DivByRoot(QSub(value, mean), stdDev))
    IN  IF isNaN(value) THEN FALSE
        ELSE \/ RGtQ(z, threshold)
             \/ /\ z.cls = "fin" /\ threshold.t = "num" /\ threshold.n >= 0
                /\ z.p * threshold.d * threshold.d = threshold.n * threshold.n * z.q

\* the predicate of the final data.filter of findOutliers
IsOutlierRow(row, column, mean, stdDev, threshold) ==
    LET value == Number(Get(row, column))
    IN  IF isNaN(value) THEN FALSE
        ELSE RGtQ(RAbs(DivByRoot(QSub(value, mean), stdDev)), threshold)

findOutliers(d, column, threshold) ==
    LET values == NumericValues(d, column)
        mean == Mean(values)
        stdDev == StdDev(values, mean)
    IN  IF Len(values) = 0 THEN <<>>
        ELSE IF stdDev = RZero THEN <<>>
        ELSE SelectSeq(d, LAMBDA row : IsOutlierRow(row, column, mean, stdDev, threshold))

\* the default value of the parameter threshold of findOutliers
DefaultThreshold == 3

(***************************************************************************)
(* detectColumnType and analyzeData                                        *)
(***************************************************************************)
\* /^\d{4}-\d{2}-\d{2}$/.test(chars)
MatchesDatePattern(chars) ==
    /\ Len(chars) = 10
    /\ \A i \in {1, 2, 3, 4, 6, 7, 9, 10} : IsDigit(chars[i])
    /\ chars[5] = "-"
    /\ chars[8] = "-"

\* the filter without its empty-string test
IsNonNullKeepingEmptyString(v) == v.t \notin {"null", "undef"}

\* v !== null && v !== undefined && v !== ''
IsNonNull(v) == v.t \notin {"null", "undef"} /\ v # Str(<<>>)

\* the detection without the isFinite test of the numeric check
detectColumnTypeAllowingInfinity(values) ==
    LET nonNullValues == SelectSeq(values, IsNonNull)
    IN  IF Len(nonNullValues) = 0 THEN "categorical"
        ELSE IF \A i \in 1..Len(nonNullValues) : MatchesDatePattern(String(nonNullValues[i]))
             THEN "date"
        ELSE IF \A i \in 1..Len(nonNullValues) : ~isNaN(Number(nonNullValues[i]))
             THEN "numeric"
        ELSE "categorical"

detectColumnType(values) ==
    LET nonNullValues == SelectSeq(values, IsNonNull)
    IN  IF Len(nonNullValues) = 0 THEN "categorical"
        ELSE IF \A i \in 1..Len(nonNullValues) : MatchesDatePattern(String(nonNullValues[i]))
             THEN "date"
        ELSE IF \A i \in 1..Len(nonNullValues) :
                    ~isNaN(Number(nonNullValues[i])) /\ isFinite(Number(nonNullValues[i]))
             THEN "numeric"
        ELSE "categorical"

\* the positions at which a value occurs for the first time
FirstOccurrences(values) ==
    {i \in 1..Len(values) : \A j \in 1..(i - 1) : values[j] # values[i]}

\* the entries of the sequence at the positions I, in their order
AtPositions(values, I) ==
    [k \in 1..Cardinality(I) |->
        values[CHOOSE i \in I : Cardinality({j \in I : j <= i}) = k]]

\* [...new Set(values)]: the distinct values in the order of their first occurrence
Unique(values) == AtPositions(values, FirstOccurrences(values))

\* the number of unique values analyzeData keeps for a column
MaxUniqueValues == 50

\* the ColumnInfo with every unique value kept
ColumnInfoUncapped(d, column) ==
    [name |-> column,
     type |-> detectColumnType([i \in 1..Len(d) |-> Get(d[i], column)]),
     values |-> Unique([i \in 1..Len(d) |-> Get(d[i], column)])]

\* the ColumnInfo of one column
ColumnInfo(d, column) ==
    LET values == [i \in 1..Len(d) |-> Get(d[i], column)]
        unique == Unique(values)
    IN  [name |-> column,
         type |-> detectColumnType(values),
         values |-> SubSeq(unique, 1, Min2(MaxUniqueValues, Len(unique)))]

RECURSIVE AllKeys(_)
\* the keys of all the rows, one after the other
AllKeys(d) ==
    IF d = <<>> THEN <<>>
    ELSE AllKeys(SubSeq(d, 1, Len(d) - 1)) \o ObjectKeys(d[Len(d)])

\* the analysis with a column for every key of every row
analyzeDataAllKeys(d) ==
    [c \in 1..Len(Unique(AllKeys(d))) |-> ColumnInfo(d, Unique(AllKeys(d))[c])]

analyzeData(d) ==
    IF Len(d) = 0 THEN <<>>
    ELSE LET columns == ObjectKeys(d[1])
         IN  [c \in 1..Len(columns) |-> ColumnInfo(d, columns[c])]

(***************************************************************************)
(* generateInsights.  A DataInsight is [type, confidence] with what its    *)
(* title and description tell: the columns, the sign of the correlation,   *)
(* the number of outliers, the dominant category and its count.            *)
(***************************************************************************)
\* a correlation of 0.1
StrongCorrelationTenth == Q(1, 10)

\* the correlation above which a pair of columns is reported: 0.5
StrongCorrelation == Q(1, 2)

\* a share of 0.2
OutlierShareFifth == Q(1, 5)

\* the share of the rows the outliers must stay below: 0.1 (the product
\* data.length * 0.1 is exact here; as a double it can lie just above it)
OutlierShare == Q(1, 10)

\* the share of the rows the dominant category must exceed: 0.4
DominantShare == Q(2, 5)

\* the confidence of an outlier insight: 0.8
OutlierConfidence == Root(1, 16, 25)

\* the confidence of a categorical insight: 0.7
CategoricalConfidence == Root(1, 49, 100)

\* the number of insights generateInsights returns at most
MaxInsights == 5

Insight(type, confidence, columns, positive, count, category) ==
    [type |-> type, confidence |-> confidence, columns |-> columns,
     positive |-> positive, count |-> count, category |-> category]

RECURSIVE CorrelationInsights(_, _, _, _)
\* the two nested loops over the numeric columns, from the pair (i, j) on
CorrelationInsights(d, numericColumns, i, j) ==
    IF i > Len(numericColumns) THEN <<>>
    ELSE IF j > Len(numericColumns) THEN CorrelationInsights(d, numericColumns, i + 1, i + 2)
    ELSE LET col1 == numericColumns[i].name
             col2 == numericColumns[j].name
             correlation == calculateCorrelation(d, col1, col2)
             rest == CorrelationInsights(d, numericColumns, i, j + 1)
         IN  IF RGtQ(RAbs(correlation), StrongCorrelation)
             THEN <<Insight("correlation", RAbs(correlation), <<col1, col2>>,
                            RGtQ(correlation, QInt(0)), 0, <<>>)>> \o rest
             ELSE rest

RECURSIVE OutlierInsights(_, _)
\* numericColumns.forEach(col => ...)
OutlierInsights(d, numericColumns) ==
    IF numericColumns = <<>> THEN <<>>
    ELSE LET col == Head(numericColumns)
             outliers == findOutliers(d, col.name, QInt(DefaultThreshold))
             rest == OutlierInsights(d, Tail(numericColumns))
         IN  IF Len(outliers) > 0
                /\ QLt(QInt(Len(outliers)), QMul(QInt(Len(d)), OutlierShare))
             THEN <<Insight("outlier", OutlierConfidence, <<col.name>>, FALSE,
                            Len(outliers), <<>>)>> \o rest
             ELSE rest

RECURSIVE CountByString(_)
\* col.values.reduce(...): the entries [key, count] of counts in insertion order
CountByString(values) ==
    IF values = <<>> THEN <<>>
    ELSE LET acc == CountByString(SubSeq(values, 1, Len(values) - 1))
             key == String(values[Len(values)])
         IN  IF \E e \in 1..Len(acc) : acc[e].key = key
             THEN [e \in 1..Len(acc) |->
                      IF acc[e].key = key THEN [key |-> key, count |-> acc[e].count + 1]
                      ELSE acc[e]]
             ELSE Append(acc, [key |-> key, count |-> 1])

\* a property name that is an array index: such keys come first in
\* Object.keys, in ascending order
IsIndexKey(key) == AllDigits(key) /\ (Len(key) = 1 \/ key[1] # "0")

\* Math.max(...countValues), 0 for no counts
MaxCount(counts) ==
    IF counts = <<>> THEN 0
    ELSE CHOOSE m \in {counts[e].count : e \in 1..Len(counts)} :
             \A e \in 1..Len(counts) : counts[e].count <= m

\* Object.keys(counts).find(key => counts[key] === maxCount): the empty
\* string when it is the key found (it is falsy, like the undefined of no key)
MaxCategory(counts, maxCount) ==
    LET hits == {e \in 1..Len(counts) : counts[e].count = maxCount}
        indexHits == {e \in hits : IsIndexKey(counts[e].key)}
    IN  IF hits = {} THEN <<>>
        ELSE IF indexHits # {}
             THEN counts[CHOOSE e \in indexHits : \A f \in indexHits :
                             DigitsToNat(counts[e].key) <= DigitsToNat(counts[f].key)].key
        ELSE counts[CHOOSE e \in hits : \A f \in hits : e <= f].key

RECURSIVE CategoricalInsightsOverRows(_, _)
\* the categorical pass with the counts taken over the rows of the dataset
CategoricalInsightsOverRows(d, categoricalColumns) ==
    IF categoricalColumns = <<>> THEN <<>>
    ELSE LET col == Head(categoricalColumns)
             counts == CountByString([i \in 1..Len(d) |-> Get(d[i], col.name)])
             maxCount == MaxCount(counts)
             maxCategory == MaxCategory(counts, maxCount)
             rest == CategoricalInsightsOverRows(d, Tail(categoricalColumns))
         IN  IF /\ Len(col.values) > 1
                /\ Len(col.values) < 20
                /\ maxCategory # <<>>
                /\ QGt(QInt(maxCount), QMul(QInt(Len(d)), DominantShare))
             THEN <<Insight("categorical", CategoricalConfidence, <<col.name>>, FALSE,
                            maxCount, maxCategory)>> \o rest
             ELSE rest

RECURSIVE CategoricalInsights(_, _)
\* categoricalColumns.forEach(col => ...)
CategoricalInsights(d, categoricalColumns) ==
    IF categoricalColumns = <<>> THEN <<>>
    ELSE LET col == Head(categoricalColumns)
             counts == CountByString(col.values)
             maxCount == MaxCount(counts)
             maxCategory == MaxCategory(counts, maxCount)
             rest == CategoricalInsights(d, Tail(categoricalColumns))
         IN  IF /\ Len(col.values) > 1
                /\ Len(col.values) < 20
                /\ maxCategory # <<>>
                /\ QGt(QInt(maxCount), QMul(QInt(Len(d)), DominantShare))
             THEN <<Insight("categorical", CategoricalConfidence, <<col.name>>, FALSE,
                            maxCount, maxCategory)>> \o rest
             ELSE rest

\* the array insights before it is sorted
CandidateInsights(d) ==
    LET columns == analyzeData(d)
        numericColumns == SelectSeq(columns, LAMBDA col : col.type = "numeric")
        categoricalColumns == SelectSeq(columns, LAMBDA col : col.type = "categorical")
    IN  CorrelationInsights(d, numericColumns, 1, 2)
            \o OutlierInsights(d, numericColumns)
            \o CategoricalInsights(d, categoricalColumns)

\* the comparison function (a, b) => b.confidence - a.confidence, as its sign
CompareInsights(a, b) == RCompare(a.confidence, b.confidence)

RECURSIVE InsertSorted(_, _)
\* x put after the elements that the comparison function does not put after it
InsertSorted(sorted, x) ==
    IF sorted = <<>> THEN <<x>>
    ELSE IF CompareInsights(sorted[Len(sorted)], x) <= 0 THEN Append(sorted, x)
    ELSE Append(InsertSorted(SubSeq(sorted, 1, Len(sorted) - 1), x), sorted[Len(sorted)])

RECURSIVE Sort(_)
\* Array.prototype.sort, which is stable
Sort(insights) ==
    IF insights = <<>> THEN <<>>
    ELSE InsertSorted(Sort(SubSeq(insights, 1, Len(insights) - 1)), insights[Len(insights)])

\* Slice with no end
SliceAll(insights, end) == insights

\* insights.slice(0, end)
Slice(insights, end) == SubSeq(insights, 1, Min2(end, Len(insights)))

generateInsights(d) == Slice(Sort(CandidateInsights(d)), MaxInsights)

(***************************************************************************)
(* applyFilters.  A FilterRule is [column, operator, value, min, max,      *)
(* enabled]: the value of a range rule is the pair [min, max], kept in     *)
(* min and max; the other operators read value.                            *)
(***************************************************************************)
\* the switch with an equals that compares the string forms
OperatorMatchesLoosely(row, filter) ==
    LET value == Get(row, filter.column)
    IN  CASE filter.operator = "equals" -> String(value) = String(filter.value)
          [] filter.operator = "contains" ->
               includes(toLowerCase(String(value)), toLowerCase(String(filter.value)))
          [] filter.operator = "greater" -> QGt(Number(value), Number(filter.value))
          [] filter.operator = "less" -> QLt(Number(value), Number(filter.value))
          [] filter.operator = "range" ->
               /\ QGeq(Number(value), Number(filter.min))
               /\ QLeq(Number(value), Number(filter.max))
          [] OTHER -> TRUE

\* the switch on filter.operator
OperatorMatches(row, filter) ==
    LET value == Get(row, filter.column)
    IN  CASE filter.operator = "equals" -> StrictEquals(value, filter.value)
          [] filter.operator = "contains" ->
               includes(toLowerCase(String(value)), toLowerCase(String(filter.value)))
          [] filter.operator = "greater" -> QGt(Number(value), Number(filter.value))
          [] filter.operator = "less" -> QLt(Number(value), Number(filter.value))
          [] filter.operator = "range" ->
               /\ QGeq(Number(value), Number(filter.min))
               /\ QLeq(Number(value), Number(filter.max))
          [] OTHER -> TRUE

\* FilterPasses without the test of filter.enabled
FilterPassesAlways(row, filter) == OperatorMatches(row, filter)

\* the callback of filters.every
FilterPasses(row, filter) ==
    IF ~filter.enabled THEN TRUE ELSE OperatorMatches(row, filter)

RECURSIVE RowPassesSome(_, _)
\* RowPasses with some in the place of every
RowPassesSome(row, filters) ==
    IF filters = <<>> THEN FALSE
    ELSE IF FilterPasses(row, Head(filters)) THEN TRUE
    ELSE RowPassesSome(row, Tail(filters))

RECURSIVE RowPasses(_, _)
\* the callback of data.filter: filters.every(...), which stops at the first
\* rule that fails
RowPasses(row, filters) ==
    IF filters = <<>> THEN TRUE
    ELSE IF ~FilterPasses(row, Head(filters)) THEN FALSE
    ELSE RowPasses(row, Tail(filters))

applyFilters(d, filters) == SelectSeq(d, LAMBDA row : RowPasses(row, filters))

(***************************************************************************)
(* groupAndAggregate.  An aggregation is [column, function].               *)
(***************************************************************************)
\* an element of an array as Array.prototype.join writes it
JoinElement(v) == IF v.t \in {"null", "undef"} THEN <<>> ELSE String(v)

RECURSIVE Join(_, _)
\* values.join(sep)
Join(values, sep) ==
    IF values = <<>> THEN <<>>
    ELSE IF Len(values) = 1 THEN JoinElement(values[1])
    ELSE Join(SubSeq(values, 1, Len(values) - 1), sep) \o sep \o JoinElement(values[Len(values)])

RECURSIVE Split(_, _)
\* chars.split(sep) for a separator of one character
Split(chars, sep) ==
    IF \A i \in 1..Len(chars) : chars[i] # sep THEN <<chars>>
    ELSE LET i == CHOOSE j \in 1..Len(chars) :
                      chars[j] = sep /\ \A m \in 1..(j - 1) : chars[m] # sep
         IN  <<SubSeq(chars, 1, i - 1)>> \o Split(SubSeq(chars, i + 1, Len(chars)), sep)

\* array[index], undefined past the end
At(array, index) == IF index \in 1..Len(array) THEN Str(array[index]) ELSE Undef

\* groupColumns.map(col => row[col]).join('|')
GroupKey(row, groupColumns) ==
    Join([c \in 1..Len(groupColumns) |-> Get(row, groupColumns[c])], <<"|">>)

RECURSIVE Groups(_, _)
\* the Map groups after data.forEach: its entries [key, rows] in insertion order
Groups(d, groupColumns) ==
    IF d = <<>> THEN <<>>
    ELSE LET before == Groups(SubSeq(d, 1, Len(d) - 1), groupColumns)
             row == d[Len(d)]
             key == GroupKey(row, groupColumns)
         IN  IF \E g \in 1..Len(before) : before[g].key = key
             THEN [g \in 1..Len(before) |->
                      IF before[g].key = key
                      THEN [key |-> key, rows |-> Append(before[g].rows, row)]
                      ELSE before[g]]
             ELSE Append(before, [key |-> key, rows |-> <<row>>])

RECURSIVE AddGroupColumns(_, _, _)
\* groupColumns.forEach((col, index) => result[col] = key.split('|')[index])
AddGroupColumns(res, key, groupColumns) ==
    IF groupColumns = <<>> THEN res
    ELSE LET index == Len(groupColumns)
             before == AddGroupColumns(res, key, SubSeq(groupColumns, 1, index - 1))
         IN  Put(before, groupColumns[index], At(Split(key, "|"), index))

FunctionChars(function) ==
    CASE function = "sum" -> <<"s", "u", "m">>
      [] function = "avg" -> <<"a", "v", "g">>
      [] function = "count" -> <<"c", "o", "u", "n", "t">>
      [] function = "min" -> <<"m", "i", "n">>
      [] function = "max" -> <<"m", "a", "x">>

\* `${agg.column}_${agg.function}`
AggregateName(agg) == agg.column \o <<"_">> \o FunctionChars(agg.function)

RECURSIVE MinQ(_)
\* Math.min(...values)
MinQ(values) ==
    IF values = <<>> THEN QInf
    ELSE LET rest == MinQ(Tail(values))
         IN  IF isNaN(Head(values)) \/ isNaN(rest) THEN QNaN
             ELSE IF QLt(Head(values), rest) THEN Head(values) ELSE rest

RECURSIVE MaxQ(_)
\* Math.max(...values)
MaxQ(values) ==
    IF values = <<>> THEN QNegInf
    ELSE LET rest == MaxQ(Tail(values))
         IN  IF isNaN(Head(values)) \/ isNaN(rest) THEN QNaN
             ELSE IF QGt(Head(values), rest) THEN Head(values) ELSE rest

\* the aggregation with an average that divides by the number of values
\* whatever it is
AggregateUnguarded(groupData, agg) ==
    LET values == NumericValues(groupData, agg.column)
    IN  CASE agg.function = "sum" -> SumQ(values)
          [] agg.function = "avg" -> QDiv(SumQ(values), QInt(Len(values)))
          [] agg.function = "count" -> QInt(Len(values))
          [] agg.function = "min" -> MinQ(values)
          [] agg.function = "max" -> MaxQ(values)

\* the aggregation with a count that is the number of rows of the group
AggregateCountingRows(groupData, agg) ==
    LET values == NumericValues(groupData, agg.column)
    IN  CASE agg.function = "sum" -> SumQ(values)
          [] agg.function = "avg" ->
               IF Len(values) > 0 THEN QDiv(SumQ(values), QInt(Len(values))) ELSE QInt(0)
          [] agg.function = "count" -> QInt(Len(groupData))
          [] agg.function = "min" -> MinQ(values)
          [] agg.function = "max" -> MaxQ(values)

\* the value the switch on agg.function stores for one aggregation
Aggregate(groupData, agg) ==
    LET values == NumericValues(groupData, agg.column)
    IN  CASE agg.function = "sum" -> SumQ(values)
          [] agg.function = "avg" ->
               IF Len(values) > 0 THEN QDiv(SumQ(values), QInt(Len(values))) ELSE QInt(0)
          [] agg.function = "count" -> QInt(Len(values))
          [] agg.function = "min" -> MinQ(values)
          [] agg.function = "max" -> MaxQ(values)

RECURSIVE AddAggregations(_, _, _)
\* aggregations.forEach(agg => ...)
AddAggregations(res, groupData, aggregations) ==
    IF aggregations = <<>> THEN res
    ELSE LET agg == aggregations[Len(aggregations)]
             before == AddAggregations(res, groupData,
                                       SubSeq(aggregations, 1, Len(aggregations) - 1))
         IN  Put(before, AggregateName(agg), FromQ(Aggregate(groupData, agg)))

groupAndAggregate(d, groupColumns, aggregations) ==
    LET groups == Groups(d, groupColumns)
    IN  [g \in 1..Len(groups) |->
            AddAggregations(AddGroupColumns(<<>>, groups[g].key, groupColumns),
                            groups[g].rows, aggregations)]

(***************************************************************************)
(* addComputedFields.  A ComputedField is [name, expression]; the          *)
(* expression is a string over word characters, spaces and                 *)
(* + - * / ( ) . = ;                                                       *)
(* eval runs its script in the scope of the forEach callback.  It is       *)
(* modelled on scripts of that alphabet: statements separated by ";",      *)
(* each an arithmetic expression or the assignment                         *)
(* computedFields.length = <arithmetic expression>.  A script with a       *)
(* SyntaxError throws before any of it runs; a ReferenceError or a         *)
(* RangeError ends the script where it is raised, and what ran before      *)
(* stays done.  The operators **, == and ===, and computedFields anywhere  *)
(* but in that assignment, are outside the scripts modelled.               *)
(***************************************************************************)
RECURSIVE WordLen(_)
\* the length of the longest prefix of word characters
WordLen(chars) ==
    IF chars # <<>> /\ IsWordChar(Head(chars)) THEN 1 + WordLen(Tail(chars)) ELSE 0

RECURSIVE Substitute(_, _)
\* expression.replace(/\b(\w+)\b/g, match =>
\*     row[match] !== undefined ? String(row[match]) : match)
Substitute(chars, row) ==
    IF chars = <<>> THEN <<>>
    ELSE IF IsWordChar(Head(chars))
         THEN LET n == WordLen(chars)
                  match == SubSeq(chars, 1, n)
              IN  (IF Get(row, match) # Undef THEN String(Get(row, match)) ELSE match)
                      \o Substitute(SubSeq(chars, n + 1, Len(chars)), row)
    ELSE <<Head(chars)>> \o Substitute(Tail(chars), row)

Token(kind, text) == [kind |-> kind, text |-> text]

\* a run of word characters is a number literal, an identifier, or neither
WordKind(word) ==
    IF AllDigits(word) THEN "num"
    ELSE IF ~IsDigit(Head(word)) THEN "id"
    ELSE "bad"

RECURSIVE Tokens(_)
\* the tokens of a script: ++ and -- are one token each, which no expression
\* of the alphabet can hold without a SyntaxError or a ReferenceError
Tokens(chars) ==
    IF chars = <<>> THEN <<>>
    ELSE LET c == Head(chars)
         IN  IF IsSpace(c) THEN Tokens(Tail(chars))
             ELSE IF IsWordChar(c)
                  THEN LET n == WordLen(chars)
                       IN  <<Token(WordKind(SubSeq(chars, 1, n)), SubSeq(chars, 1, n))>>
                               \o Tokens(SubSeq(chars, n + 1, Len(chars)))
             ELSE IF c \in {"+", "-"} /\ Len(chars) >= 2 /\ chars[2] = c
                  THEN <<Token("bad", <<c, c>>)>> \o Tokens(SubSeq(chars, 3, Len(chars)))
             ELSE IF c \in {"+", "-", "*", "/", "(", ")", ".", "=", ";"}
                  THEN <<Token("op", <<c>>)>> \o Tokens(Tail(chars))
             ELSE <<Token("bad", <<c>>)>> \o Tokens(Tail(chars))

Threw == [ok |-> FALSE, val |-> Undef, pos |-> 0]

Returned(val, pos) == [ok |-> TRUE, val |-> val, pos |-> pos]

IsOp(toks, i, ops) == i <= Len(toks) /\ toks[i].kind = "op" /\ toks[i].text[1] \in ops

\* the identifiers that are literals or global constants
LiteralNames ==
    {String(Null), String(Undef), String(NaN), String(Inf), String(Bool(TRUE)),
     String(Bool(FALSE))}

LiteralValue(name) ==
    CHOOSE v \in {Null, Undef, NaN, Inf, Bool(TRUE), Bool(FALSE)} : String(v) = name

\* left op right for an arithmetic operator on two values that are not strings
Arith(operator, left, right) ==
    CASE operator = "+" -> FromQ(QAdd(Number(left), Number(right)))
      [] operator = "-" -> FromQ(QSub(Number(left), Number(right)))
      [] operator = "*" -> FromQ(QMul(Number(left), Number(right)))
      [] operator = "/" -> FromQ(QDiv(Number(left), Number(right)))

\* +value and -value
Unary(operator, value) ==
    IF operator = "neg" THEN FromQ(QNeg(Number(value))) ELSE FromQ(Number(value))

\* the precedence of an operator waiting for its right operand
Precedence(operator) ==
    CASE operator \in {"+", "-"} -> 1
      [] operator \in {"*", "/"} -> 2
      [] operator \in {"pos", "neg"} -> 3

RECURSIVE Reduce(_, _, _)
\* the waiting operators of precedence minPrec or more, back to the last
\* open parenthesis, applied to the values read so far
Reduce(vals, ops, minPrec) ==
    IF ops = <<>> \/ ops[Len(ops)] = "(" \/ Precedence(ops[Len(ops)]) < minPrec
    THEN [vals |-> vals, ops |-> ops]
    ELSE LET operator == ops[Len(ops)]
             n == Len(vals)
         IN  Reduce(IF operator \in {"pos", "neg"}
                    THEN [vals EXCEPT ![n] = Unary(operator, vals[n])]
                    ELSE Append(SubSeq(vals, 1, n - 2), Arith(operator, vals[n - 1], vals[n])),
                    SubSeq(ops, 1, Len(ops) - 1), minPrec)

RECURSIVE ParseExpr(_, _, _, _, _)
\* the arithmetic expression that begins at position i, read token by token
\* with the values vals and the operators ops waiting, operand telling that
\* an operand has to come: its value and the position after it, or Threw for
\* an expression that is not well formed or names an unknown identifier
ParseExpr(toks, i, vals, ops, operand) ==
    LET step ==
            IF operand
            THEN IF i > Len(toks) THEN "throw"
                 ELSE IF toks[i].kind = "num" THEN "number"
                 ELSE IF toks[i].kind = "id"
                      THEN IF toks[i].text \in LiteralNames THEN "literal" ELSE "throw"
                 ELSE IF IsOp(toks, i, {"("}) THEN "open"
                 ELSE IF IsOp(toks, i, {"+", "-"}) THEN "unary"
                 ELSE "throw"
            ELSE IF IsOp(toks, i, {"+", "-", "*", "/"}) THEN "binary"
                 ELSE IF IsOp(toks, i, {")"}) THEN "close"
                 ELSE "end"
        reduced == Reduce(vals, ops, IF step = "binary" THEN Precedence(toks[i].text[1]) ELSE 0)
    IN  IF step = "throw" THEN Threw
        ELSE IF step = "end"
             THEN IF reduced.ops = <<>> THEN Returned(reduced.vals[1], i) ELSE Threw
        ELSE IF step = "close" /\ reduced.ops = <<>> THEN Threw
        ELSE ParseExpr(toks, i + 1,
                       CASE step = "number" -> Append(vals, Num(DigitsToNat(toks[i].text)))
                         [] step = "literal" -> Append(vals, LiteralValue(toks[i].text))
                         [] step \in {"binary", "close"} -> reduced.vals
                         [] OTHER -> vals,
                       CASE step = "open" -> Append(ops, "(")
                         [] step = "unary" ->
                                Append(ops, IF toks[i].text[1] = "-" THEN "neg" ELSE "pos")
                         [] step = "binary" -> Append(reduced.ops, toks[i].text[1])
                         [] step = "close" -> SubSeq(reduced.ops, 1, Len(reduced.ops) - 1)
                         [] OTHER -> ops,
                       step \in {"open", "unary", "binary"})

ComputedFieldsChars == <<"c", "o", "m", "p", "u", "t", "e", "d", "F", "i", "e", "l", "d", "s">>

LengthChars == <<"l", "e", "n", "g", "t", "h">>

RowChars == <<"r", "o", "w">>

\* what a script can change of the scope it runs in: the array
\* computedFields and the object row
Scope(fields, row) == [fields |-> fields, row |-> row]

\* the tokens from position i on begin with computedFields.length =
IsLengthAssignment(toks, i) ==
    /\ i + 3 <= Len(toks)
    /\ toks[i] = Token("id", ComputedFieldsChars)
    /\ toks[i + 1] = Token("op", <<".">>)
    /\ toks[i + 2] = Token("id", LengthChars)
    /\ toks[i + 3] = Token("op", <<"=">>)

\* the tokens from position i on begin with row.name =
IsRowAssignment(toks, i) ==
    /\ i + 3 <= Len(toks)
    /\ toks[i] = Token("id", RowChars)
    /\ toks[i + 1] = Token("op", <<".">>)
    /\ toks[i + 2].kind = "id"
    /\ toks[i + 3] = Token("op", <<"=">>)

IsAssignment(toks, i) == IsLengthAssignment(toks, i) \/ IsRowAssignment(toks, i)

\* the tokens with 0 for every identifier that is only looked up when the
\* script runs: what is left to go wrong is the syntax
SyntaxOnly(toks) ==
    [i \in 1..Len(toks) |->
        IF /\ toks[i].kind = "id"
           /\ toks[i].text \notin LiteralNames
           /\ ~IsAssignment(toks, i)
           /\ ~(i > 2 /\ IsAssignment(toks, i - 2))
        THEN Token("num", <<"0">>)
        ELSE toks[i]]

\* the value can be the length of an array: an integer from 0 to 2^32 - 1
\* (all the integers of the model are below 2^31)
IsArrayLength(v) == Number(v).t = "num" /\ Number(v).d = 1 /\ Number(v).n >= 0

\* fields.length = n: the elements from n on are deleted; a greater length
\* adds holes at the end, which forEach skips
SetLength(fields, n) == SubSeq(fields, 1, Min2(n, Len(fields)))

\* the scope after the assignment that begins at position i has stored val
Assign(scope, toks, i, val) ==
    IF IsLengthAssignment(toks, i)
    THEN [scope EXCEPT !.fields = SetLength(scope.fields, Number(val).n)]
    ELSE IF IsRowAssignment(toks, i)
         THEN [scope EXCEPT !.row = Put(scope.row, toks[i + 2].text, val)]
    ELSE scope

\* a statement ends at the end of the script or at a ";"
EndsStatement(toks, i) == i > Len(toks) \/ IsOp(toks, i, {";"})

\* the statement whose expression has the outcome r throws: a SyntaxError, a
\* ReferenceError, or the RangeError of a length that is none
StatementThrows(toks, r, assigns, syntaxOnly) ==
    \/ ~r.ok
    \/ ~EndsStatement(toks, r.pos)
    \/ assigns /\ ~syntaxOnly /\ ~IsArrayLength(r.val)

RECURSIVE RunScript(_, _, _, _, _)
RECURSIVE RunStatement(_, _, _, _, _, _)
\* the statement that begins at position i, whose expression has the outcome
\* r, and the statements after it
RunStatement(toks, scope, last, syntaxOnly, i, r) ==
    IF StatementThrows(toks, r, IsLengthAssignment(toks, i), syntaxOnly)
    THEN [ok |-> FALSE, val |-> Undef, scope |-> scope]
    ELSE RunScript(toks, r.pos,
                   IF syntaxOnly THEN scope ELSE Assign(scope, toks, i, r.val),
                   r.val, syntaxOnly)

\* the statements from position i on, run in order in the scope, the value
\* of the last statement being last: [ok, val, scope].  With syntaxOnly it
\* is what the parser does: nothing runs and no RangeError is raised.
RunScript(toks, i, scope, last, syntaxOnly) ==
    IF i > Len(toks) THEN [ok |-> TRUE, val |-> last, scope |-> scope]
    ELSE IF IsOp(toks, i, {";"}) THEN RunScript(toks, i + 1, scope, last, syntaxOnly)
    ELSE RunStatement(toks, scope, last, syntaxOnly, i,
                      ParseExpr(toks, IF IsAssignment(toks, i) THEN i + 4 ELSE i,
                                <<>>, <<>>, TRUE))

\* the script of the tokens toks, parsed and, with no SyntaxError, run
EvalTokens(toks, scope) ==
    IF (\E i \in 1..Len(toks) : toks[i].kind = "bad")
       \/ ~RunScript(SyntaxOnly(toks), 1, scope, Undef, TRUE).ok
    THEN [ok |-> FALSE, val |-> Undef, scope |-> scope]
    ELSE RunScript(toks, 1, scope, Undef, FALSE)

\* eval(script) in the scope: [ok, val, scope], ok FALSE for a script that
\* throws, scope what it leaves of computedFields and of row
Eval(script, scope) == EvalTokens(Tokens(script), scope)

\* the outcome of the try block for one field on one row
EvalField(row, field, fields) ==
    Eval(Substitute(field.expression, row), Scope(fields, row))

\* the value try/catch leaves in newRow[field.name], r being the outcome of
\* the try block
FieldValue(r) == IF r.ok THEN r.val ELSE Null

RECURSIVE ComputeFields(_, _, _, _, _)
RECURSIVE StoreField(_, _, _, _, _)
\* the callback of forEach once the try block of the field of index k has the
\* outcome r, and the rest of the loop
StoreField(newRow, name, k, len, r) ==
    ComputeFields(Put(newRow, name, FieldValue(r)), r.scope.row, r.scope.fields, k + 1, len)

\* computedFields.forEach(field => { try { ... } catch { ... } }) from the
\* index k on: forEach visits the indices below the length len that the array
\* had when forEach began, and skips those the array no longer has.
\* The result is [row, fields, input]: newRow, what is left of
\* computedFields, and the row of the dataset as the scripts leave it.
ComputeFields(newRow, row, fields, k, len) ==
    IF k > len THEN [row |-> newRow, fields |-> fields, input |-> row]
    ELSE IF k > Len(fields) THEN ComputeFields(newRow, row, fields, k + 1, len)
    ELSE StoreField(newRow, fields[k].name, k, len, EvalField(row, fields[k], fields))

\* the mapped rows and the rows of the dataset, r being what the callback of
\* map leaves of one row and rest what the rows after it give
ConsRows(r, rest) ==
    [rows |-> <<r.row>> \o rest.rows, input |-> <<r.input>> \o rest.input]

RECURSIVE MapData(_, _)
\* the row mapped, r being what the callback of map leaves, and the rows after it
MapRows(d, r) == ConsRows(r, MapData(Tail(d), r.fields))

\* data.map(row => ...): the rows are mapped in order, all with the one
\* array computedFields; [rows, input]: the new dataset, and the dataset
\* passed in as the call leaves it
MapData(d, computedFields) ==
    IF d = <<>> THEN [rows |-> <<>>, input |-> <<>>]
    ELSE MapRows(d, ComputeFields(Head(d), Head(d), computedFields, 1, Len(computedFields)))

addComputedFields(d, computedFields) == MapData(d, computedFields).rows

(***************************************************************************)
(* Inputs.  Column names are strings; a dataset is drawn from the rows     *)
(* over a few values per column.                                           *)
(***************************************************************************)
ColA == <<"a">>

ColB == <<"b">>

\* the sequences over S of length at most n
SeqsUpTo(S, n) == UNION {[1..k -> S] : k \in 0..n}

\* the rows {a: x, b: y}
RowsAB(xs, ys) == {<<[k |-> ColA, v |-> x], [k |-> ColB, v |-> y]>> : x \in xs, y \in ys}

\* No call made yet.  The functions are pure: a call reads the dataset and its
\* arguments only, so a behaviour is a dataset and one call on it.
\* a text, known by what trim() and JSON.parse make of it
Document(blank, parsed) == [blank |-> blank, parsed |-> parsed]

\* what a parser makes of a text: it throws, or gives a value that is not an
\* array, or gives an array
Throws == [kind |-> "throws", rows |-> <<>>]

NotArray == [kind |-> "value", rows |-> <<>>]

Array(rows) == [kind |-> "array", rows |-> rows]

\* useState(""): the empty text
BlankDocument == Document(TRUE, Throws)

\* no file: event.target.files is empty, and no upload is waiting
NoFile == [ext |-> "", parsed |-> Throws]

\* the page as constructed: no schema, no chart, nothing loading
NoImport ==
    /\ schema = <<>>
    /\ charts = <<>>
    /\ isLoading = FALSE
    /\ jsonInput = BlankDocument
    /\ upload = NoFile

\* useState(false) of the page and useState(0) of the modal; useState([]) and
\* useState(false) of the panel; no timer set
NoWidget ==
    /\ modal = [open |-> FALSE, currentSlide |-> 0]
    /\ panel = [insights |-> <<>>, isGenerating |-> FALSE]
    /\ timers = <<>>

Idle == op = "init" /\ args = <<>> /\ result = <<>> /\ NoImport /\ NoWidget

(***************************************************************************)
(* Correlation: any dataset over columns a and b, any pair of columns.     *)
(***************************************************************************)
MaxCorrRows == 3

CorrValuesA == {Num(0), Num(1), Num(3), Str(<<"x">>), Str(InfinityChars)}

CorrValuesB == {Num(1), Num(2), Null}

InitCorrelation ==
    /\ data \in SeqsUpTo(RowsAB(CorrValuesA, CorrValuesB), MaxCorrRows)
    /\ Idle

CalculateCorrelation ==
    \E col1 \in {ColA, ColB}, col2 \in {ColA, ColB} :
        /\ op = "init"
        /\ op' = "calculateCorrelation"
        /\ args' = <<col1, col2>>
        /\ result' = calculateCorrelation(data, col1, col2)
        /\ UNCHANGED <<data, ui>>

NextCorrelation == CalculateCorrelation

SpecCorrelation == InitCorrelation /\ [][NextCorrelation]_vars

\* the rows of the dataset whose two coerced values are both not NaN
ValidPairRows(col1, col2) ==
    {i \in 1..Len(data) : ~isNaN(Number(Get(data[i], col1)))
                          /\ ~isNaN(Number(Get(data[i], col2)))}

\* the column's coerced value is the same in all the given rows
ConstantOver(rows, col) ==
    \A i \in rows, j \in rows : Number(Get(data[i], col)) = Number(Get(data[j], col))

\* C7: calculateCorrelation returns a value r with -1 <= r <= 1, for every
\* dataset and every pair of columns.
C7_CorrelationInRange ==
    op = "calculateCorrelation" => result.cls = "fin" /\ result.p <= result.q

\* C8: calculateCorrelation(data, c, c) is exactly 1 for every column c with at
\* least two numeric-coercible values that are not all equal.
C8_SelfCorrelationIsOne ==
    (/\ op = "calculateCorrelation"
     /\ args[1] = args[2]
     /\ Cardinality(ValidPairRows(args[1], args[1])) >= 2
     /\ ~ConstantOver(ValidPairRows(args[1], args[1]), args[1]))
    => result = ROne

ColV == <<"v">>

ColW == <<"w">>

MaxOutlierRows == 3

OutlierValuesV == {Num(0), Num(1), Num(4), Str(<<"x">>), Str(InfinityChars)}

OutlierValuesW == {Num(7), Num(8)}

Thresholds == {QInt(-1), QInt(0), QInt(1), QInt(DefaultThreshold)}

RowsVW(xs, ys) == {<<[k |-> ColV, v |-> x], [k |-> ColW, v |-> y]>> : x \in xs, y \in ys}

InitOutliers ==
    /\ data \in SeqsUpTo(RowsVW(OutlierValuesV, OutlierValuesW), MaxOutlierRows)
    /\ Idle

FindOutliers ==
    \E column \in {ColV, ColW}, threshold \in Thresholds :
        /\ op = "init"
        /\ op' = "findOutliers"
        /\ args' = <<column, threshold>>
        /\ result' = findOutliers(data, column, threshold)
        /\ UNCHANGED <<data, ui>>

NextOutliers == FindOutliers

SpecOutliers == InitOutliers /\ [][NextOutliers]_vars

\* the rows whose value in the column coerces to a number
NumericRows(col) == {i \in 1..Len(data) : ~isNaN(Number(Get(data[i], col)))}

AllFinite(col) == \A i \in NumericRows(col) : isFinite(Number(Get(data[i], col)))

RECURSIVE SumOver(_, _)
\* the sum of f over the finite set I
SumOver(f, I) ==
    IF I = {} THEN 0
    ELSE LET i == CHOOSE j \in I : TRUE IN f[i] + SumOver(f, I \ {i})

\* With n numeric values v_j of sum S, all finite, and dev_i = n * v_i - S:
\* mean = S / n, stdDev^2 = (SUM dev_j^2) / n^3 and z_i^2 = n * dev_i^2 / SUM dev_j^2.
\* So |z_i| > t = tn / td iff the deviations are not all 0 and
\* (t < 0 or n * dev_i^2 * td^2 > tn^2 * SUM dev_j^2).
\* With an infinite value the mean is infinite or NaN, the standard deviation
\* NaN, and no z-score exceeds anything.
ZScoreExceeds(i, col, t) ==
    LET I == NumericRows(col)
        n == Cardinality(I)
        val == [j \in I |-> Number(Get(data[j], col)).n]
        S == SumOver(val, I)
        dev == [j \in I |-> n * val[j] - S]
        sq == SumOver([j \in I |-> dev[j] * dev[j]], I)
    IN  /\ i \in I
        /\ AllFinite(col)
        /\ sq > 0
        /\ t.n < 0 \/ n * dev[i] * dev[i] * t.d * t.d > t.n * t.n * sq

RECURSIVE RowsAt(_, _)
\* the rows of d at the indices I, in the order of d
RowsAt(d, I) ==
    IF d = <<>> THEN <<>>
    ELSE LET front == RowsAt(SubSeq(d, 1, Len(d) - 1), I)
         IN  IF Len(d) \in I THEN Append(front, d[Len(d)]) ELSE front

MaxFilterRows == 3

MaxRules == 2

FilterValues == {Num(1), Num(5), Str(<<"1">>), Str(<<"a", "B", "1">>)}

ScalarRule(operator, value, enabled) ==
    [column |-> ColA, operator |-> operator, value |-> value,
     min |-> Undef, max |-> Undef, enabled |-> enabled]

RangeRule(min, max, enabled) ==
    [column |-> ColA, operator |-> "range", value |-> Undef,
     min |-> min, max |-> max, enabled |-> enabled]

Rules ==
    {ScalarRule("equals", Num(1), e) : e \in BOOLEAN}
        \cup {ScalarRule("contains", Str(<<"A", "b">>), e) : e \in BOOLEAN}
        \cup {ScalarRule("less", Str(<<"5">>), e) : e \in BOOLEAN}
        \cup {RangeRule(Num(1), Num(5), e) : e \in BOOLEAN}
        \cup {ScalarRule("contains", Num(1), TRUE), ScalarRule("greater", Num(1), TRUE)}

RowsA(xs) == {<<[k |-> ColA, v |-> x]>> : x \in xs}

InitFilters ==
    /\ data \in SeqsUpTo(RowsA(FilterValues), MaxFilterRows)
    /\ Idle

ApplyFilters ==
    \E filters \in SeqsUpTo(Rules, MaxRules) :
        /\ op = "init"
        /\ op' = "applyFilters"
        /\ args' = <<filters>>
        /\ result' = applyFilters(data, filters)
        /\ UNCHANGED <<data, ui>>

NextFilters == ApplyFilters

SpecFilters == InitFilters /\ [][NextFilters]_vars

\* every enabled rule of the list matches the row
EveryEnabledRuleMatches(row, filters) ==
    \A k \in 1..Len(filters) : filters[k].enabled => OperatorMatches(row, filters[k])

\* C2: applyFilters returns exactly the rows, in the order of the dataset, for
\* which every enabled rule matches; a row is dropped iff an enabled rule fails.
C2_FiltersKeepRowsMatchingEveryEnabledRule ==
    op = "applyFilters" =>
        result = RowsAt(data, {i \in 1..Len(data) : EveryEnabledRuleMatches(data[i], args[1])})

\* C2 witness: two enabled rules, a row dropped by the first alone, a row
\* dropped by the second alone, and a row kept.
C2_Witness ==
    /\ op = "applyFilters"
    /\ Len(args[1]) = 2
    /\ args[1][1].enabled /\ args[1][2].enabled
    /\ Len(data) = 3
    /\ ~OperatorMatches(data[1], args[1][1]) /\ OperatorMatches(data[1], args[1][2])
    /\ OperatorMatches(data[2], args[1][1]) /\ ~OperatorMatches(data[2], args[1][2])
    /\ result = <<data[3]>>

\* C3: with no rule enabled (no rules, or disabled rules of any column,
\* operator and value) applyFilters returns the rows of the dataset unchanged.
C3_NoEnabledRuleIsIdentity ==
    (op = "applyFilters" /\ \A k \in 1..Len(args[1]) : ~args[1][k].enabled)
    => result = data

\* C3 witness: disabled rules that match no row of the dataset, and every
\* row returned.
C3_Witness ==
    /\ op = "applyFilters"
    /\ Len(args[1]) = 2
    /\ \A k \in 1..2 : ~args[1][k].enabled
    /\ Len(data) = 3
    /\ \A i \in 1..3 : \A k \in 1..2 : ~OperatorMatches(data[i], args[1][k])
    /\ result = data

(***************************************************************************)
(* Grouping: any dataset over columns g, h and v, grouped by none, one or  *)
(* two columns, with aggregations of v.                                    *)
(***************************************************************************)
ColG == <<"g">>

ColH == <<"h">>

MaxGroupRows == 3

MaxAggregations == 1

GroupValuesG == {Str(<<"a">>), Str(<<"a", "|", "b">>), Num(1)}

GroupValuesH == {Str(<<"c">>), Str(<<"b", "|", "c">>)}

GroupValuesV == {Num(1), Num(3), Str(<<"x">>)}

RowsGHV ==
    {<<[k |-> ColG, v |-> x], [k |-> ColH, v |-> y], [k |-> ColV, v |-> z]>> :
        x \in GroupValuesG, y \in GroupValuesH, z \in GroupValuesV}

Aggregations ==
    {[column |-> ColV, function |-> f] : f \in {"sum", "avg", "count", "min", "max"}}

InitGroup ==
    /\ data \in SeqsUpTo(RowsGHV, MaxGroupRows)
    /\ Idle

GroupAndAggregate ==
    \E groupColumns \in {<<>>, <<ColG>>, <<ColG, ColH>>},
       aggregations \in SeqsUpTo(Aggregations, MaxAggregations) :
        /\ op = "init"
        /\ op' = "groupAndAggregate"
        /\ args' = <<groupColumns, aggregations>>
        /\ result' = groupAndAggregate(data, groupColumns, aggregations)
        /\ UNCHANGED <<data, ui>>

NextGroup == GroupAndAggregate

SpecGroup == InitGroup /\ [][NextGroup]_vars

\* the values of the row in the group columns
GroupValues(row, groupColumns) ==
    [c \in 1..Len(groupColumns) |-> Get(row, groupColumns[c])]

\* the elements of a sequence
Range(seq) == {seq[i] : i \in 1..Len(seq)}

\* C4: the number of rows groupAndAggregate returns is the number of distinct
\* combinations of group-column values in the dataset.
C4_OneRowPerDistinctCombination ==
    op = "groupAndAggregate" =>
        Len(result) = Cardinality({GroupValues(data[i], args[1]) : i \in 1..Len(data)})

\* C5: each returned row holds, for every group column, the value the rows of
\* its group have in that column, and besides the group columns exactly the
\* fields `{column}_{function}` of the requested aggregations.
C5_RowsHoldGroupValuesAndAggregates ==
    op = "groupAndAggregate" =>
        \A r \in 1..Len(result) :
            /\ \E i \in 1..Len(data) :
                   \A c \in 1..Len(args[1]) :
                       Get(result[r], args[1][c]) = Get(data[i], args[1][c])
            /\ Range(ObjectKeys(result[r]))
                   = Range(args[1]) \cup {AggregateName(agg) : agg \in Range(args[2])}

(***************************************************************************)
(* Computed fields: any dataset over columns a and b, any list of fields.  *)
(***************************************************************************)
MaxComputedRows == 2

MaxFields == 2

ComputedValuesA == {Num(4)}

ComputedValuesB == {Num(-1), Num(2), Str(<<"x">>)}

FieldNames == {<<"s">>, <<"t">>}

Expressions ==
    {<<"a", " ", "+", " ", "1">>,
     <<"a", "-", "b">>,
     <<"(", "a", " ", "/", " ", "b", ")", "*", "2">>,
     <<"a", " ", "*">>,
     ComputedFieldsChars \o <<".">> \o LengthChars \o <<"=", "0", ";", "b">>}

ComputedFields == {[name |-> n, expression |-> e] : n \in FieldNames, e \in Expressions}

InitComputed ==
    /\ data \in SeqsUpTo(RowsAB(ComputedValuesA, ComputedValuesB), MaxComputedRows)
    /\ Idle

AddComputedFields ==
    \E computedFields \in SeqsUpTo(ComputedFields, MaxFields) :
        /\ op = "init"
        /\ op' = "addComputedFields"
        /\ args' = <<computedFields>>
        /\ result' = addComputedFields(data, computedFields)
        /\ data' = MapData(data, computedFields).input
        /\ UNCHANGED ui

NextComputed == AddComputedFields

SpecComputed == InitComputed /\ [][NextComputed]_vars

\* the field is the last of the list with its name: the one whose value stays
LastOfName(fields, k) == \A m \in (k + 1)..Len(fields) : fields[m].name # fields[k].name

\* the evaluation of a field of the list fails on a row of the dataset
SomeEvaluationFails(d, fields) ==
    \E i \in 1..Len(d) : \E k \in 1..Len(fields) : ~EvalField(d[i], fields[k], fields).ok

\* C6: when the evaluation of a field fails on a row, addComputedFields still
\* returns a row for every row of the dataset; the field is null in that row
\* (and in every row where it fails), and every field whose evaluation succeeds
\* on a row holds its own value there.
C6_FailureIsLocalToFieldAndRow ==
    (op = "addComputedFields" /\ SomeEvaluationFails(data, args[1])) =>
        /\ Len(result) = Len(data)
        /\ \A i \in 1..Len(data) : \A k \in 1..Len(args[1]) :
               LastOfName(args[1], k) =>
                   Get(result[i], args[1][k].name)
                       = FieldValue(EvalField(data[i], args[1][k], args[1]))

(***************************************************************************)
(* Insights: datasets of up to MaxInsightRows rows and MaxInsightColumns   *)
(* columns c1, c2, ...; each column runs through one of a few series.      *)
(***************************************************************************)
MaxInsightRows == 3

MaxInsightColumns == 4

Series == {"up", "square", "down", "even", "mixed"}

\* the value of a series in row i
SeriesValue(series, i) ==
    CASE series = "up" -> Num(i)
      [] series = "square" -> Num(i * i)
      [] series = "down" -> Str(IntToChars(-i))
      [] series = "even" -> Num(3 * (i % 2))
      [] series = "mixed" -> IF i = 1 THEN Str(String(Null))
                             ELSE IF i = 2 THEN Null
                             ELSE Str(<<"a">>)

ColumnName(c) == <<"c">> \o NatToChars(c)

\* the dataset of n rows whose column c runs through series[c]
SeriesData(n, series) ==
    [i \in 1..n |-> [c \in 1..Len(series) |->
                        [k |-> ColumnName(c), v |-> SeriesValue(series[c], i)]]]

InitInsights ==
    /\ \E n \in 0..MaxInsightRows, series \in SeqsUpTo(Series, MaxInsightColumns) :
           data = SeriesData(n, series)
    /\ Idle

GenerateInsights ==
    /\ op = "init"
    /\ op' = "generateInsights"
    /\ args' = <<>>
    /\ result' = generateInsights(data)
    /\ UNCHANGED <<data, ui>>

NextInsights == GenerateInsights

SpecInsights == InitInsights /\ [][NextInsights]_vars

\* a >= b for two confidences: sqrt(a.p / a.q) >= sqrt(b.p / b.q)
ConfidenceGeq(a, b) == a.cls = "fin" /\ b.cls = "fin" /\ a.p * b.q >= b.p * a.q

\* C1: generateInsights returns at most 5 insights, in non-increasing order
\* of confidence.
C1_AtMostFiveByDescendingConfidence ==
    op = "generateInsights" =>
        /\ Len(result) <= 5
        /\ \A i \in 1..(Len(result) - 1) :
               ConfidenceGeq(result[i].confidence, result[i + 1].confidence)

\* C1 witness: more than 5 insights were found, 5 are returned, and their
\* confidences are not all the same.
C1_Witness ==
    /\ op = "generateInsights"
    /\ Len(CandidateInsights(data)) > 5
    /\ Len(result) = 5
    /\ result[1].confidence # result[5].confidence

(***************************************************************************)
(* The outlier scenario: datasets whose column v holds 10 and 1000.        *)
(***************************************************************************)
MaxScenarioRows == 5

ScenarioValues == {Num(10), Num(1000)}

ScenarioThresholds == {QInt(0), QInt(1), QInt(2), QInt(DefaultThreshold)}

InitOutlierScenario ==
    /\ data \in SeqsUpTo(RowsA(ScenarioValues), MaxScenarioRows)
    /\ Idle

FindScenarioOutliers ==
    \E threshold \in ScenarioThresholds :
        /\ op = "init"
        /\ op' = "findOutliers"
        /\ args' = <<ColA, threshold>>
        /\ result' = findOutliers(data, ColA, threshold)
        /\ UNCHANGED <<data, ui>>

NextOutlierScenario == FindScenarioOutliers

SpecOutlierScenario == InitOutlierScenario /\ [][NextOutlierScenario]_vars

\* the dataset of the scenario: five rows whose column holds 10, 10, 10, 10, 1000
IsOutlierScenario ==
    /\ Len(data) = 5
    /\ \A i \in 1..4 : Get(data[i], ColA) = Num(10)
    /\ Get(data[5], ColA) = Num(1000)

\* C12: for five rows whose column holds 10, 10, 10, 10, 1000, findOutliers
\* with threshold 3 returns exactly the row with 1000.
C12_ScenarioReturnsTheLargeRow ==
    (op = "findOutliers" /\ IsOutlierScenario /\ args[2] = QInt(3))
    => result = <<data[5]>>

\* C12 amended: for these five rows the z-score of 1000 is exactly 2 and that
\* of 10 is -1/2, so findOutliers returns no row with threshold 3 (and any
\* threshold of 2 or more), and exactly the row with 1000 with a threshold
\* from 1/2 up to but not including 2.
C12_ScenarioReturnsNoRow ==
    (op = "findOutliers" /\ IsOutlierScenario)
    => /\ args[2] \in {QInt(2), QInt(3)} => result = <<>>
       /\ args[2] = QInt(1) => result = <<data[5]>>

\* C12 witness: the scenario with threshold 3 has been run and returned no row.
C12_Witness ==
    /\ op = "findOutliers"
    /\ IsOutlierScenario
    /\ args[2] = QInt(3)
    /\ result = <<>>

(***************************************************************************)
(* Categories: datasets with the one column c, which holds "X" and "Y".    *)
(***************************************************************************)
ColC == <<"c">>

MaxCategoryRows == 10

CategoryValues == {Str(<<"X">>), Str(<<"Y">>)}

RowsC(xs) == {<<[k |-> ColC, v |-> x]>> : x \in xs}

InitCategories ==
    /\ data \in SeqsUpTo(RowsC(CategoryValues), MaxCategoryRows)
    /\ Idle

GenerateCategoryInsights ==
    /\ op = "init"
    /\ op' = "generateInsights"
    /\ args' = <<>>
    /\ result' = generateInsights(data)
    /\ UNCHANGED <<data, ui>>

NextCategories == GenerateCategoryInsights

SpecCategories == InitCategories /\ [][NextCategories]_vars

\* the number of rows of the dataset that hold v in the column
RowCount(col, v) == Cardinality({i \in 1..Len(data) : Get(data[i], col) = v})

\* the values of the column
ColumnValues(col) == {Get(data[i], col) : i \in 1..Len(data)}

\* the values that no other value of the column outnumbers
MostFrequent(col) ==
    {v \in ColumnValues(col) : \A w \in ColumnValues(col) : RowCount(col, w) <= RowCount(col, v)}

\* C13: when the categorical column c has more than 1 and fewer than 20
\* distinct values and its most frequent value holds more than 40% of the
\* rows, generateInsights returns a categorical insight that names that value,
\* with confidence 0.7 (so it does for 10 rows of which 5 hold "X").
C13_DominantCategoryIsReported ==
    (/\ op = "generateInsights"
     /\ Cardinality(ColumnValues(ColC)) > 1
     /\ Cardinality(ColumnValues(ColC)) < 20
     /\ \E v \in MostFrequent(ColC) : 5 * RowCount(ColC, v) > 2 * Len(data))
    => \E k \in 1..Len(result) :
           /\ result[k].type = "categorical"
           /\ result[k].columns = <<ColC>>
           /\ result[k].category \in {String(v) : v \in MostFrequent(ColC)}
           /\ result[k].confidence = CategoricalConfidence

(***************************************************************************)
(* Types: datasets with the one column a, which holds empty values, dates, *)
(* numbers, numeric and other strings.                                     *)
(***************************************************************************)
MaxTypeRows == 3

DateChars == <<"2", "0", "2", "4", "-", "0", "1", "-", "0", "5">>

TypeValues ==
    {Null, Undef, Str(<<>>), Num(7), NaN, Bool(TRUE),
     Str(<<"1", "2">>), Str(<<" ">>), Str(<<"x">>), Str(InfinityChars),
     Str(DateChars), Str(Append(DateChars, "6"))}

InitTypes ==
    /\ data \in SeqsUpTo(RowsA(TypeValues), MaxTypeRows)
    /\ Idle

\* data.map(row => row[column])
ColumnOf(d, column) == [i \in 1..Len(d) |-> Get(d[i], column)]

DetectColumnType ==
    /\ op = "init"
    /\ op' = "detectColumnType"
    /\ args' = <<ColumnOf(data, ColA)>>
    /\ result' = detectColumnType(ColumnOf(data, ColA))
    /\ UNCHANGED <<data, ui>>

AnalyzeTypes ==
    /\ op = "init"
    /\ op' = "analyzeData"
    /\ args' = <<>>
    /\ result' = analyzeData(data)
    /\ UNCHANGED <<data, ui>>

NextTypes == DetectColumnType \/ AnalyzeTypes

SpecTypes == InitTypes /\ [][NextTypes]_vars

\* null, undefined and the empty string
EmptyValues == {Null, Undef, Str(<<>>)}

IsEmptyValue(v) == v \in EmptyValues

IsPresentValue(v) == v \notin EmptyValues

\* the text is four digits, a dash, two digits, a dash, two digits
IsDateText(chars) ==
    /\ Len(chars) = 10
    /\ AllDigits(SubSeq(chars, 1, 4))
    /\ chars[5] = "-"
    /\ AllDigits(SubSeq(chars, 6, 7))
    /\ chars[8] = "-"
    /\ AllDigits(SubSeq(chars, 9, 10))

\* the type the decision procedure gives a sequence of values
DecidedType(values) ==
    LET remaining == SelectSeq(values, IsPresentValue)
        all(P(_)) == \A i \in 1..Len(remaining) : P(remaining[i])
        isDate(v) == IsDateText(String(v))
        isFiniteNumber(v) == Number(v).t = "num"
    IN  IF remaining = <<>> THEN "categorical"
        ELSE IF all(isDate) THEN "date"
        ELSE IF all(isFiniteNumber) THEN "numeric"
        ELSE "categorical"

\* C14: detectColumnType follows the decision procedure: with the null,
\* undefined and empty-string entries removed, the type is categorical when
\* nothing remains, else date when every remaining value reads YYYY-MM-DD,
\* else numeric when every remaining value coerces to a finite number, else
\* categorical.
C14_DetectFollowsProcedure ==
    op = "detectColumnType" => result = DecidedType(args[1])

\* C14 witness: a column that holds Infinity next to a number, and nothing
\* that coerces to NaN, has been typed categorical.
C14_Witness ==
    /\ op = "detectColumnType"
    /\ \E i \in 1..Len(args[1]) : args[1][i] = Str(InfinityChars)
    /\ \E i \in 1..Len(args[1]) : args[1][i] = Num(7)
    /\ \A i \in 1..Len(args[1]) : Number(args[1][i]).t # "nan"
    /\ result = "categorical"

\* the sequence with e put after its first p entries
InsertAt(values, p, e) ==
    SubSeq(values, 1, p) \o <<e>> \o SubSeq(values, p + 1, Len(values))

\* the sequence without its entry i
RemoveAt(values, i) ==
    SubSeq(values, 1, i - 1) \o SubSeq(values, i + 1, Len(values))

\* C15: the type depends on the non-empty values only: putting a null, an
\* undefined or an empty string anywhere into the column, or taking one or
\* all of them out, leaves the result of detectColumnType unchanged, and the
\* type analyzeData reports is the type of the non-empty values.
C15_TypeIgnoresEmptyValues ==
    /\ op = "detectColumnType" =>
          /\ \A p \in 0..Len(args[1]) : \A e \in EmptyValues :
                 detectColumnType(InsertAt(args[1], p, e)) = result
          /\ \A i \in 1..Len(args[1]) :
                 IsEmptyValue(args[1][i]) => detectColumnType(RemoveAt(args[1], i)) = result
          /\ detectColumnType(SelectSeq(args[1], IsPresentValue)) = result
    /\ (op = "analyzeData" /\ data # <<>>) =>
          result[1].type = detectColumnType(SelectSeq(ColumnOf(data, ColA), IsPresentValue))

\* C15 witness: a column of a date and an empty string has been typed date.
C15_Witness ==
    /\ op = "detectColumnType"
    /\ \E i \in 1..Len(args[1]) : args[1][i] = Str(<<>>)
    /\ \E i \in 1..Len(args[1]) : args[1][i] = Str(DateChars)
    /\ result = "date"

(***************************************************************************)
(* Schema: datasets whose rows differ in their keys, and long datasets     *)
(* with the one column a that holds up to MaxLongRows distinct numbers.    *)
(***************************************************************************)
MaxSchemaRows == 3

MaxLongRows == 52

Field(k, v) == [k |-> k, v |-> v]

SchemaRows ==
    {<<>>,
     <<Field(ColA, Num(1))>>,
     <<Field(ColA, Num(2))>>,
     <<Field(ColA, Str(<<"1">>))>>,
     <<Field(ColA, Null)>>,
     <<Field(ColB, Num(1))>>,
     <<Field(ColA, Num(1)), Field(ColB, Num(2))>>,
     <<Field(ColB, Num(2)), Field(ColA, Num(1))>>}

\* the numbers of distinct values the long datasets cycle through
Cycles == {1, 3, MaxUniqueValues, MaxUniqueValues + 1, MaxUniqueValues + 10}

\* n rows {a: i % m}
LongData(n, m) == [i \in 1..n |-> <<Field(ColA, Num(i % m))>>]

InitSchema ==
    /\ \/ data \in SeqsUpTo(SchemaRows, MaxSchemaRows)
       \/ \E n \in 0..MaxLongRows : \E m \in Cycles : data = LongData(n, m)
    /\ Idle

AnalyzeData ==
    /\ op = "init"
    /\ op' = "analyzeData"
    /\ args' = <<>>
    /\ result' = analyzeData(data)
    /\ UNCHANGED <<data, ui>>

NextSchema == AnalyzeData

SpecSchema == InitSchema /\ [][NextSchema]_vars

\* C16: analyzeData returns the empty sequence for the empty dataset, and
\* otherwise one ColumnInfo for each key of the first row, in the order of
\* the first row's keys; a key that only later rows have gets none.
C16_ColumnsAreFirstRowKeys ==
    op = "analyzeData" =>
        IF data = <<>> THEN result = <<>>
        ELSE /\ Len(result) = Len(data[1])
             /\ \A c \in 1..Len(result) : result[c].name = data[1][c].k

\* C16 witness: a dataset whose second row has a key the first row lacks
\* has been analysed into the one column of the first row.
C16_Witness ==
    /\ op = "analyzeData"
    /\ Len(data) >= 2
    /\ Len(data[1]) = 1
    /\ \E f \in 1..Len(data[2]) : ~HasKey(data[1], data[2][f].k)
    /\ Len(result) = 1

\* the raw values of the column, undefined for a row without the key
RawValues(column) == {Get(data[i], column) : i \in 1..Len(data)}

\* C17: the values list of every ColumnInfo has at most 50 entries, no value
\* twice, only raw values of its column, and all of them when the column has
\* at most 50 distinct raw values.
C17_DistinctValuesAreCapped ==
    op = "analyzeData" =>
        \A c \in 1..Len(result) :
            LET list == result[c].values
                raw == RawValues(result[c].name)
            IN  /\ Len(list) <= 50
                /\ \A i, j \in 1..Len(list) : list[i] = list[j] => i = j
                /\ \A i \in 1..Len(list) : list[i] \in raw
                /\ Cardinality(raw) <= 50 => raw = {list[i] : i \in 1..Len(list)}

\* C17 witness: a column of more than 50 distinct values has been analysed
\* into a list of 50 values.
C17_Witness ==
    /\ op = "analyzeData"
    /\ Cardinality(RawValues(ColA)) > 50
    /\ Len(result) = 1
    /\ Len(result[1].values) = 50

(***************************************************************************)
(* Frame: the three transformations on datasets over the columns a and b;  *)
(* args[1] keeps the dataset as it was passed.                             *)
(***************************************************************************)
MaxFrameRows == 2

MaxFrameFields == 2

FrameValuesA == {Num(4)}

FrameValuesB == {Num(2), Str(<<"x">>)}

FrameRules == {ScalarRule("equals", Num(4), TRUE), ScalarRule("greater", Num(5), TRUE)}

FrameAggregations == {[column |-> ColB, function |-> f] : f \in {"sum", "count"}}

FrameExpressions ==
    {<<"a", " ", "+", " ", "1">>,
     RowChars \o <<".", "z", "=", "1">>,
     RowChars \o <<".", "a", "=", "b">>}

FrameFields == {[name |-> <<"s">>, expression |-> e] : e \in FrameExpressions}

InitFrame ==
    /\ data \in SeqsUpTo(RowsAB(FrameValuesA, FrameValuesB), MaxFrameRows)
    /\ Idle

\* applyFilters reads the rows and writes to none
FilterData ==
    \E filters \in SeqsUpTo(FrameRules, 1) :
        /\ op = "init"
        /\ op' = "applyFilters"
        /\ args' = <<data, filters>>
        /\ result' = applyFilters(data, filters)
        /\ UNCHANGED <<data, ui>>

\* groupAndAggregate pushes the rows into arrays of its own and writes to
\* result rows of its own
GroupData ==
    \E groupColumns \in {<<>>, <<ColA>>}, aggregations \in SeqsUpTo(FrameAggregations, 1) :
        /\ op = "init"
        /\ op' = "groupAndAggregate"
        /\ args' = <<data, groupColumns, aggregations>>
        /\ result' = groupAndAggregate(data, groupColumns, aggregations)
        /\ UNCHANGED <<data, ui>>

\* addComputedFields writes to copies of the rows; the scripts it evaluates
\* have the row itself in their scope
ComputeData ==
    \E computedFields \in SeqsUpTo(FrameFields, MaxFrameFields) :
        /\ op = "init"
        /\ op' = "addComputedFields"
        /\ args' = <<data, computedFields>>
        /\ result' = addComputedFields(data, computedFields)
        /\ data' = MapData(data, computedFields).input
        /\ UNCHANGED ui

NextFrame == FilterData \/ GroupData \/ ComputeData

SpecFrame == InitFrame /\ [][NextFrame]_vars

\* C18: after applyFilters, groupAndAggregate or addComputedFields the
\* dataset passed in has the same rows in the same order, every row with the
\* same fields and values as before the call.
C18_InputIsUntouched ==
    op \in {"applyFilters", "groupAndAggregate", "addComputedFields"} => data = args[1]

(***************************************************************************)
(* Import: the dashboard page and its importer.  data, schema and charts   *)
(* are the state of the page; a file is known by its extension and by what *)
(* its parser makes of its content, a pasted text by whether it is blank   *)
(* and by what JSON.parse makes of it.  The arrays are arrays of rows.     *)
(***************************************************************************)
MaxImportRows == 2

MaxClock == 2

ImportValuesA == {Num(1)}

ImportValuesB == {Num(2), Str(<<"x">>)}

ImportData == SeqsUpTo(RowsAB(ImportValuesA, ImportValuesB), MaxImportRows)

Parsed == {Throws, NotArray} \cup {Array(d) : d \in ImportData}

Documents == {BlankDocument} \cup {Document(FALSE, p) : p \in Parsed}

\* results.data of Papa.parse is an array
Files ==
    {[ext |-> e, parsed |-> p] : e \in {"json", "txt"}, p \in Parsed}
        \cup {[ext |-> "csv", parsed |-> p] : p \in Parsed \ {NotArray}}

\* the values of Date.now()
Clock == 1..MaxClock

\* the sample dataset: rows of a numeric and a categorical column
EmployeeSalesData ==
    <<<<Field(ColA, Num(1)), Field(ColB, Str(<<"x">>))>>,
      <<Field(ColA, Num(2)), Field(ColB, Str(<<"y">>))>>,
      <<Field(ColA, Num(2)), Field(ColB, Str(<<"x">>))>>>>

\* the content of the file: parseCSV, JSON.parse, or the error of an
\* unsupported format
FileParsed(file) == IF file.ext \in {"csv", "json"} THEN file.parsed ELSE Throws

\* the test below without its test of the length
IsImportableOrEmpty(parsed) == parsed.kind = "array"

\* !(!Array.isArray(data) || data.length === 0), after a parse that did not throw
IsImportable(parsed) == parsed.kind = "array" /\ Len(parsed.rows) # 0

\* the schema of the first row only
ImportedColumnsOfFirstRow(d) == analyzeData(SubSeq(d, 1, 1))

\* const columns = analyzeData(data)
ImportedColumns(d) == analyzeData(d)

NoAxis == <<>>

Chart(now, k, type, title, xAxis, yAxis) ==
    [id |-> <<now, k>>, type |-> type, title |-> title, xAxis |-> xAxis, yAxis |-> yAxis]

\* the charts handleDataImported makes for a schema
InitialCharts(newColumns, now) ==
    LET numericCols == SelectSeq(newColumns, LAMBDA col : col.type = "numeric")
        categoricalCols == SelectSeq(newColumns, LAMBDA col : col.type = "categorical")
    IN  IF Len(newColumns) >= 2
        THEN (IF Len(numericCols) > 0 /\ Len(categoricalCols) > 0
              THEN <<Chart(now, 1, "bar", "Overview Chart",
                           categoricalCols[1].name, numericCols[1].name)>>
              ELSE <<>>)
             \o (IF Len(numericCols) >= 2
                 THEN <<Chart(now, 2, "scatter", "Correlation Analysis",
                              numericCols[1].name, numericCols[2].name)>>
                 ELSE <<>>)
             \o <<Chart(now, 3, "table", "Data Table", NoAxis, NoAxis)>>
        ELSE <<>>

\* onDataImported(newData, newColumns) at the time now
handleDataImported(newData, newColumns, now) ==
    /\ data' = newData
    /\ schema' = newColumns
    /\ charts' = InitialCharts(newColumns, now)

\* what a handler step did: whether it has run to its end, whether it called
\* onDataImported, and the title of its toast
Outcome(done, called, toast) == [done |-> done, called |-> called, toast |-> toast]

Imported == Outcome(TRUE, TRUE, "Data imported successfully!")

Failed == Outcome(TRUE, FALSE, "Import failed")

InitImport == data = <<>> /\ Idle

\* the text area is edited
SetJsonInput ==
    \E doc \in Documents :
        /\ doc # jsonInput
        /\ op' = "setJsonInput"
        /\ args' = <<doc>>
        /\ result' = <<>>
        /\ jsonInput' = doc
        /\ UNCHANGED <<data, schema, charts, isLoading, upload>>
        /\ UNCHANGED widgets

\* handleFileUpload up to its first await; the button that opens the file
\* dialog is disabled while isLoading
SelectFile(file) ==
    /\ ~isLoading
    /\ op' = "handleFileUpload"
    /\ args' = <<file>>
    /\ IF file = NoFile
       THEN /\ result' = Outcome(TRUE, FALSE, "")
            /\ UNCHANGED <<isLoading, upload>>
       ELSE /\ result' = Outcome(FALSE, FALSE, "")
            /\ isLoading' = TRUE
            /\ upload' = file
    /\ UNCHANGED <<data, schema, charts, jsonInput>>
    /\ UNCHANGED widgets

FileSelected == \E file \in Files \cup {NoFile} : SelectFile(file)

\* handleFileUpload from the content of the file on: try, catch and finally
FileRead ==
    \E now \in Clock :
        /\ upload # NoFile
        /\ op' = "handleFileUpload"
        /\ args' = <<upload>>
        /\ IF IsImportable(FileParsed(upload))
           THEN /\ handleDataImported(FileParsed(upload).rows,
                                      ImportedColumns(FileParsed(upload).rows), now)
                /\ result' = Imported
           ELSE /\ result' = Failed
                /\ UNCHANGED <<data, schema, charts>>
        /\ isLoading' = FALSE
        /\ upload' = NoFile
        /\ UNCHANGED jsonInput
        /\ UNCHANGED widgets

\* handleJsonPaste; its button is disabled while isLoading and for a blank text
HandleJsonPaste ==
    \E now \in Clock :
        /\ ~isLoading
        /\ ~jsonInput.blank
        /\ op' = "handleJsonPaste"
        /\ args' = <<jsonInput>>
        /\ IF IsImportable(jsonInput.parsed)
           THEN /\ handleDataImported(jsonInput.parsed.rows,
                                      ImportedColumns(jsonInput.parsed.rows), now)
                /\ result' = Imported
                /\ jsonInput' = BlankDocument
           ELSE /\ result' = Failed
                /\ UNCHANGED <<data, schema, charts, jsonInput>>
        /\ isLoading' = FALSE
        /\ UNCHANGED upload
        /\ UNCHANGED widgets

LoadSampleData ==
    \E now \in Clock :
        /\ op' = "loadSampleData"
        /\ args' = <<>>
        /\ handleDataImported(EmployeeSalesData, ImportedColumns(EmployeeSalesData), now)
        /\ result' = Outcome(TRUE, TRUE, "Sample data loaded!")
        /\ UNCHANGED <<isLoading, jsonInput, upload>>
        /\ UNCHANGED widgets

NextImport == SetJsonInput \/ FileSelected \/ FileRead \/ HandleJsonPaste \/ LoadSampleData

SpecImport == InitImport /\ [][NextImport]_vars

\* the content is not an array, or is the empty array
IsInvalidContent(parsed) == parsed = NotArray \/ parsed = Array(<<>>)

\* C19: the step that ends a file upload or a JSON paste whose parsed content
\* is not an array, or is the empty array, does not call onDataImported, ends
\* in the error toast, leaves data, schema and charts of the dashboard as
\* they were, and leaves the loading flag false.
C19_InvalidImportIsRejected ==
    [][(/\ op' \in {"handleFileUpload", "handleJsonPaste"}
        /\ result'.done
        /\ IsInvalidContent(args'[1].parsed))
       => /\ ~result'.called
          /\ result' = Failed
          /\ UNCHANGED <<data, schema, charts>>
          /\ isLoading' = FALSE]_vars

\* C19 witness: with a dataset on the dashboard, the upload of a JSON file
\* that holds the empty array has ended in the error toast, nothing loading.
C19_Witness ==
    /\ op = "handleFileUpload"
    /\ args[1] = [ext |-> "json", parsed |-> Array(<<>>)]
    /\ result = Failed
    /\ data # <<>>
    /\ ~isLoading

\* C20: the schema of the dashboard is analyzeData of its dataset, in every
\* state that import attempts lead to.
C20_SchemaIsOfTheData == schema = analyzeData(data)

\* C20 witness: a paste has failed on a dashboard that shows an uploaded
\* dataset of two rows, with its two columns.
C20_Witness ==
    /\ op = "handleJsonPaste"
    /\ result = Failed
    /\ Len(data) = 2
    /\ Len(schema) = 2

(***************************************************************************)
(* IEEE 754 doubles.  The sections above keep quotients and roots exact;   *)
(* this one computes findOutliers as the engine does, in binary64 with     *)
(* round-to-nearest, ties to even.  A finite double is sign * m * 2^e with *)
(* m = 0 or 2^52 <= m < 2^53; m has more bits than an integer of the model *)
(* checker, so naturals are kept as sequences of limbs, least significant  *)
(* first, without leading zero limbs.  Exponents stay far inside the range *)
(* of doubles, so there are no subnormals and no overflow; -0 is 0.        *)
(***************************************************************************)
LimbBits == 15

Base == 2 ^ LimbBits

\* the bits of the significand of a double
MantissaBits == 53

\* const x = e: the value of the one element of {e}, computed here and once
Const(S) == CHOOSE x \in S : TRUE

Limb(a, i) == IF i >= 1 /\ i <= Len(a) THEN a[i] ELSE 0

\* the place of the last limb of a that is not zero
TopLimb(a) ==
    IF \A i \in 1..Len(a) : a[i] = 0 THEN 0
    ELSE CHOOSE i \in 1..Len(a) : a[i] # 0 /\ \A j \in (i + 1)..Len(a) : a[j] = 0

BTrim(a) == SubSeq(a, 1, TopLimb(a))

\* the natural number n
BFromNat(n) == BTrim(<<n % Base, (n \div Base) % Base, n \div (Base * Base)>>)

\* a carry leaves the limb i of a + b: a limb below overflows, and every limb
\* between passes a carry on
Carry(a, b, i) ==
    \E j \in 1..i :
        /\ Limb(a, j) + Limb(b, j) >= Base
        /\ \A k \in (j + 1)..i : Limb(a, k) + Limb(b, k) >= Base - 1

\* a + b
BAdd(a, b) ==
    BTrim([i \in 1..((IF Len(a) >= Len(b) THEN Len(a) ELSE Len(b)) + 1) |->
              (Limb(a, i) + Limb(b, i) + (IF Carry(a, b, i - 1) THEN 1 ELSE 0)) % Base])

\* the limb i of a - b borrows from the next
Borrow(a, b, i) ==
    \E j \in 1..i :
        /\ Limb(a, j) < Limb(b, j)
        /\ \A k \in (j + 1)..i : Limb(a, k) <= Limb(b, k)

\* a - b, for a >= b
BSub(a, b) ==
    BTrim([i \in 1..Len(a) |->
              (Limb(a, i) - Limb(b, i) - (IF Borrow(a, b, i - 1) THEN 1 ELSE 0) + Base) % Base])

\* a < b
BLess(a, b) ==
    IF Len(a) # Len(b) THEN Len(a) < Len(b)
    ELSE \E i \in 1..Len(a) : a[i] < b[i] /\ \A j \in (i + 1)..Len(a) : a[j] = b[j]

\* the number whose limbs are the sum of the t[i] * Base^(i-1), t[i] < Base^2
BNorm(t) ==
    BAdd([i \in 1..Len(t) |-> t[i] % Base], <<0>> \o [i \in 1..Len(t) |-> t[i] \div Base])

\* a * k, for k <= Base
BMulLimb(a, k) == BNorm([i \in 1..Len(a) |-> a[i] * k])

\* a * Base^n
BShiftLimbs(a, n) == IF a = <<>> THEN <<>> ELSE [i \in 1..n |-> 0] \o a

RECURSIVE BMulFrom(_, _, _)
BMulFrom(a, b, i) ==
    IF i > Len(b) THEN <<>>
    ELSE BAdd(BShiftLimbs(BMulLimb(a, b[i]), i - 1), BMulFrom(a, b, i + 1))

\* a * b
BMul(a, b) == BMulFrom(a, b, 1)

\* 2^k
BPow2(k) == BShiftLimbs(<<2 ^ (k % LimbBits)>>, k \div LimbBits)

\* a * 2^k
BShl(a, k) == BShiftLimbs(BMulLimb(a, 2 ^ (k % LimbBits)), k \div LimbBits)

\* a \div 2^k, for k < LimbBits
BShrBits(a, k) ==
    BTrim([i \in 1..Len(a) |->
              (a[i] \div (2 ^ k)) + (Limb(a, i + 1) % (2 ^ k)) * (2 ^ (LimbBits - k))])

\* a \div 2^k
BShr(a, k) == BShrBits(SubSeq(a, k \div LimbBits + 1, Len(a)), k % LimbBits)

\* the number of bits of a: 0 for 0, else k with 2^(k-1) <= a < 2^k
BitLen(a) ==
    IF a = <<>> THEN 0
    ELSE LimbBits * (Len(a) - 1)
             + (CHOOSE k \in 1..LimbBits : 2 ^ (k - 1) <= a[Len(a)] /\ a[Len(a)] < 2 ^ k)

IsOdd(a) == a # <<>> /\ a[1] % 2 = 1

\* the quotient of the two top limbs of cur by the top limb of d: at least the
\* limb cur \div d, and at most two more, when the top limb of d is Base/2 or
\* more and cur < d * Base
DigitGuess(cur, d) ==
    Min2((Limb(cur, Len(d) + 1) * Base + Limb(cur, Len(d))) \div d[Len(d)], Base - 1)

\* the limb cur \div d
Digit(cur, d) ==
    CHOOSE q \in (DigitGuess(cur, d) - 2)..DigitGuess(cur, d) :
        /\ q >= 0
        /\ ~BLess(cur, BMulLimb(d, q))
        /\ BLess(cur, BMulLimb(d, q + 1))

RECURSIVE BDivFrom(_, _, _, _, _)
BDivPut(n, d, i, cur, digit, q) ==
    BDivFrom(n, d, i - 1, BSub(cur, BMulLimb(d, digit)), <<digit>> \o q)

\* long division: the limbs of n from the limb i down, r the remainder and q
\* the quotient so far
BDivFrom(n, d, i, r, q) ==
    IF i = 0 THEN [q |-> BTrim(q), r |-> r]
    ELSE Const({BDivPut(n, d, i, cur, Digit(cur, d), q) : cur \in {BTrim(<<n[i]>> \o r)}})

\* long division by a d whose top limb is Base/2 or more
BDivLimbs(n, d) ==
    IF Len(n) < Len(d) THEN [q |-> <<>>, r |-> n]
    ELSE BDivFrom(n, d, Len(n) - Len(d) + 1, SubSeq(n, Len(n) - Len(d) + 2, Len(n)), <<>>)

BDivUnshift(qr, k) == [q |-> qr.q, r |-> BShr(qr.r, k)]

BDivShifted(n, d, k) == Const({BDivUnshift(qr, k) : qr \in {BDivLimbs(BShl(n, k), BShl(d, k))}})

\* [q, r] with n = q * d + r and r < d, for d > 0
BDivMod(n, d) == BDivShifted(n, d, LimbBits * Len(d) - BitLen(d))

\* the integer square root of t < Base^2
NatSqrt(t) == CHOOSE s \in 0..(Base - 1) : s * s <= t /\ t < (s + 1) * (s + 1)

\* a number not below the square root of x, from the one or two top limbs of
\* x that stand above an even number h of limbs
SqrtGuess(x, h) ==
    BShiftLimbs(BFromNat(NatSqrt(Limb(x, h + 2) * Base + Limb(x, h + 1)) + 1), h \div 2)

RECURSIVE ISqrtFrom(_, _)
ISqrtStep(x, r, next) == IF BLess(next, r) THEN ISqrtFrom(x, next) ELSE r

\* Newton's iteration from r >= sqrt(x) down to the integer square root
ISqrtFrom(x, r) ==
    Const({ISqrtStep(x, r, BShr(BAdd(r, q), 1)) : q \in {BDivMod(x, r).q}})

\* the integer square root of x
ISqrt(x) ==
    IF x = <<>> THEN <<>> ELSE ISqrtFrom(x, SqrtGuess(x, Len(x) - 2 + (Len(x) % 2)))

\* the double sign * m * 2^e
Double(sign, m, e) == [sign |-> sign, m |-> m, e |-> e]

DZero == Double(1, <<>>, 0)

\* the double sign * n * 2^e, for an n that is a significand with zero bits
\* appended or removed
Exact(sign, n, e) ==
    IF n = <<>> THEN DZero
    ELSE IF BitLen(n) > MantissaBits
         THEN Double(sign, BShr(n, BitLen(n) - MantissaBits), e + (BitLen(n) - MantissaBits))
    ELSE Double(sign, BShl(n, MantissaBits - BitLen(n)), e - (MantissaBits - BitLen(n)))

\* round to nearest, ties to even: q is followed by the bits rest, and half
\* is the weight of the first of them
RoundParts(sign, q, rest, half, e) ==
    Exact(sign,
          IF BLess(half, rest) \/ (rest = half /\ IsOdd(q)) THEN BAdd(q, <<1>>) ELSE q,
          e)

\* n * 2^e rounded at the bit k of n
RoundAt(sign, n, e, k) ==
    RoundParts(sign, BShr(n, k), BSub(n, BShl(BShr(n, k), k)), BPow2(k - 1), e + k)

\* the double nearest to sign * n * 2^e
RoundNat(sign, n, e) ==
    IF BitLen(n) <= MantissaBits THEN Exact(sign, n, e)
    ELSE RoundAt(sign, n, e, BitLen(n) - MantissaBits)

\* a quotient of MantissaBits + 2 bits or more, followed by one bit that tells
\* whether a remainder is left, rounds as the ratio does
RoundQuotient(sign, qr, e) ==
    RoundNat(sign, BAdd(BShl(qr.q, 1), IF qr.r = <<>> THEN <<>> ELSE <<1>>), e - 1)

RoundShifted(sign, n, d, e, k) ==
    Const({RoundQuotient(sign, qr, e - k) : qr \in {BDivMod(BShl(n, k), d)}})

\* the double nearest to sign * (n / d) * 2^e, for n > 0 and d > 0
RoundRatio(sign, n, d, e) ==
    RoundShifted(sign, n, d, e,
                 IF MantissaBits + 2 + BitLen(d) > BitLen(n)
                 THEN MantissaBits + 2 + BitLen(d) - BitLen(n) ELSE 0)

\* the double of a finite number of the dataset: the number a literal or a
\* parsed text denotes is the double nearest to it
ToDouble(a) ==
    IF a.n = 0 THEN DZero
    ELSE RoundRatio(Sign(a.n), BFromNat(Abs(a.n)), BFromNat(a.d), 0)

\* -x
DNeg(x) == IF x.m = <<>> THEN x ELSE Double(-x.sign, x.m, x.e)

\* Math.abs(x)
DAbs(x) == Double(1, x.m, x.e)

\* the significand of x at the exponent e <= x.e
Aligned(x, e) == BShl(x.m, x.e - e)

DAddAt(x, y, e) ==
    IF x.sign = y.sign THEN RoundNat(x.sign, BAdd(Aligned(x, e), Aligned(y, e)), e)
    ELSE IF BLess(Aligned(x, e), Aligned(y, e))
         THEN RoundNat(y.sign, BSub(Aligned(y, e), Aligned(x, e)), e)
    ELSE RoundNat(x.sign, BSub(Aligned(x, e), Aligned(y, e)), e)

\* x + y
DAdd(x, y) ==
    IF x.m = <<>> THEN y ELSE IF y.m = <<>> THEN x ELSE DAddAt(x, y, Min2(x.e, y.e))

\* x - y
DSub(x, y) == DAdd(x, DNeg(y))

\* x * y
DMul(x, y) ==
    IF x.m = <<>> \/ y.m = <<>> THEN DZero
    ELSE RoundNat(x.sign * y.sign, BMul(x.m, y.m), x.e + y.e)

\* x / y, for y # 0
DDiv(x, y) ==
    IF y.m # <<>> /\ x.m = <<>> THEN DZero
    ELSE RoundRatio(x.sign * y.sign, x.m, y.m, x.e - y.e)

\* the root r of n followed by one bit that tells whether r * r # n
RoundRoot(n, r, e) ==
    RoundNat(1, BAdd(BShl(r, 1), IF BMul(r, r) = n THEN <<>> ELSE <<1>>), e - 1)

\* the square root of m * 2^(e - k), e - k even, from the root of m * 2^k
DSqrtAt(x, k) ==
    Const({RoundRoot(BShl(x.m, k), r, (x.e - k) \div 2) : r \in {ISqrt(BShl(x.m, k))}})

\* Math.sqrt(x), for x >= 0: the significand is shifted to 119 or 120 bits,
\* whose root has 60
DSqrt(x) == IF x.m = <<>> THEN DZero ELSE DSqrtAt(x, 66 + (x.e % 2))

\* x < y
DLess(x, y) == DSub(x, y).m # <<>> /\ DSub(x, y).sign = -1

\* data.map(row => Number(row[column])).filter(v => !isNaN(v)), as doubles
DoubleValues(d, column) ==
    [i \in 1..Len(NumericValues(d, column)) |-> ToDouble(NumericValues(d, column)[i])]

RECURSIVE DSumFrom(_, _, _)
\* values.reduce((sum, v) => sum + v, sum) from the value i on
DSumFrom(values, i, sum) ==
    IF i > Len(values) THEN sum ELSE DSumFrom(values, i + 1, DAdd(sum, values[i]))

\* values.reduce((sum, v) => sum + v, 0) / values.length
DoubleMean(values) == DDiv(DSumFrom(values, 1, DZero), ToDouble(QInt(Len(values))))

\* Math.pow(v - mean, 2): the square, rounded once
SquaredDeviation(v, mean) == DMul(DSub(v, mean), DSub(v, mean))

\* Math.sqrt(values.reduce((sum, v) => sum + Math.pow(v - mean, 2), 0) / values.length)
DoubleStdDev(values, mean) ==
    DSqrt(DDiv(DSumFrom([i \in 1..Len(values) |-> SquaredDeviation(values[i], mean)],
                        1, DZero),
               ToDouble(QInt(Len(values)))))

\* Math.abs(z) > threshold
IsBeyond(z, threshold) == DLess(threshold, DAbs(z))

\* the predicate of the final data.filter of findOutliers, in doubles
IsOutlierRowDouble(row, column, mean, stdDev, threshold) ==
    IF isNaN(Number(Get(row, column))) THEN FALSE
    ELSE Const({IsBeyond(z, threshold) :
                    z \in {DDiv(DSub(ToDouble(Number(Get(row, column))), mean), stdDev)}})

FilterOutliersDouble(d, column, mean, stdDev, threshold) ==
    IF stdDev = DZero THEN <<>>
    ELSE SelectSeq(d, LAMBDA row : IsOutlierRowDouble(row, column, mean, stdDev, threshold))

OutliersAroundMean(d, column, values, mean, threshold) ==
    Const({FilterOutliersDouble(d, column, mean, stdDev, threshold) :
               stdDev \in {DoubleStdDev(values, mean)}})

OutliersOfValues(d, column, values, threshold) ==
    Const({OutliersAroundMean(d, column, values, mean, threshold) :
               mean \in {DoubleMean(values)}})

\* findOutliers for a column of finite numbers and texts that are no numbers
findOutliersDouble(d, column, threshold) ==
    IF Len(NumericValues(d, column)) = 0 THEN <<>>
    ELSE Const({OutliersOfValues(d, column, values, ToDouble(threshold)) :
                    values \in {<<>> \o DoubleValues(d, column)}})

(***************************************************************************)
(* Outliers in doubles: any dataset of one column of decimal fractions     *)
(* and a text, any threshold.                                              *)
(***************************************************************************)
MaxDoubleRows == 3

\* 0.1, 0.3, 1 and 'x'
DoubleValuesV == {FromQ(Q(1, 10)), FromQ(Q(3, 10)), Num(1), Str(<<"x">>)}

\* -1, 0, 0.5 and 3
DoubleThresholds == {QInt(-1), QInt(0), Q(1, 2), QInt(DefaultThreshold)}

InitOutliersDouble ==
    /\ data \in SeqsUpTo({<<Field(ColV, x)>> : x \in DoubleValuesV}, MaxDoubleRows)
    /\ Idle

FindOutliersDouble ==
    \E threshold \in DoubleThresholds :
        /\ op = "init"
        /\ op' = "findOutliers"
        /\ args' = <<ColV, threshold>>
        /\ result' = findOutliersDouble(data, ColV, threshold)
        /\ UNCHANGED <<data, ui>>

NextOutliersDouble == FindOutliersDouble

SpecOutliersDouble == InitOutliersDouble /\ [][NextOutliersDouble]_vars

\* the column holds no number, or one number in all the rows that hold one
IsConstantColumn(col) ==
    \A i \in NumericRows(col), j \in NumericRows(col) :
        Number(Get(data[i], col)) = Number(Get(data[j], col))

\* C11: findOutliers returns the empty sequence, whatever the threshold, when
\* no value of the column coerces to a number or when all its numeric values
\* are equal.
C11_ConstantColumnHasNoOutliers ==
    (op = "findOutliers" /\ IsConstantColumn(args[1])) => result = <<>>

(***************************************************************************)
(* Reports: datasets of up to MaxReportRows rows and MaxReportColumns      *)
(* columns c1, c2, ..., long enough for outliers at the threshold 3; each  *)
(* column runs through one of a few series.                                *)
(***************************************************************************)
MaxReportRows == 21

MaxReportColumns == 2

ReportSeries == {"spike", "spikes", "ramp", "label", "mixed"}

\* the value of a series in row i
ReportValue(series, i) ==
    CASE series = "spike" -> Num(IF i = 1 THEN 1 ELSE 0)
      [] series = "spikes" -> Num(IF i = 1 THEN 1 ELSE IF i = 2 THEN -1 ELSE 0)
      [] series = "ramp" -> Num(i)
      [] series = "label" -> Str(<<"l">> \o NatToChars(i % 3))
      [] series = "mixed" -> SeriesValue("mixed", i)

\* the dataset of n rows whose column c runs through series[c]
ReportData(n, series) ==
    [i \in 1..n |-> [c \in 1..Len(series) |->
                        Field(ColumnName(c), ReportValue(series[c], i))]]

InitReport ==
    /\ \E n \in 0..MaxReportRows, series \in SeqsUpTo(ReportSeries, MaxReportColumns) :
           data = ReportData(n, series)
    /\ Idle

GenerateReport ==
    /\ op = "init"
    /\ op' = "generateInsights"
    /\ args' = <<>>
    /\ result' = generateInsights(data)
    /\ UNCHANGED <<data, ui>>

NextReport == GenerateReport

SpecReport == InitReport /\ [][NextReport]_vars

\* the names of the numeric columns of a schema
NumericNames(columns) ==
    {columns[c].name : c \in {b \in 1..Len(columns) : columns[b].type = "numeric"}}

\* the columns analyzeData finds numeric
NumericColumnNames == NumericNames(analyzeData(data))

\* the number of rows findOutliers returns for the column at the threshold 3
OutlierCount(col) == Len(findOutliers(data, col, QInt(3)))

\* the places of the outlier insights in the result
OutlierInsightsAt == {k \in 1..Len(result) : result[k].type = "outlier"}

\* C21: every outlier insight generateInsights returns is for a numeric
\* column whose number k of outliers at the threshold 3 satisfies
\* 0 < k < 10% of the number of rows, it has the confidence 0.8 (the root of
\* 0.64), and no two outlier insights are for the same column.
C21_OutlierInsightsAreForFewOutliers ==
    op = "generateInsights" =>
        /\ \A k \in OutlierInsightsAt :
               /\ \E col \in NumericColumnNames :
                      /\ result[k].columns = <<col>>
                      /\ OutlierCount(col) > 0
                      /\ 10 * OutlierCount(col) < Len(data)
               /\ result[k].confidence = Root(1, 16, 25)
        /\ \A k \in OutlierInsightsAt, m \in OutlierInsightsAt :
               result[k].columns = result[m].columns => k = m

\* C21 witness: an outlier insight is returned for a column with two
\* outliers, and one for a column with one.
C21_Witness ==
    /\ op = "generateInsights"
    /\ \E k \in OutlierInsightsAt : result[k].count = 2
    /\ \E k \in OutlierInsightsAt : result[k].count = 1

(***************************************************************************)
(* Pairs: datasets of up to MaxPairRows rows and MaxPairColumns numeric    *)
(* columns c1, c2, ..., each running through one of three series.          *)
(***************************************************************************)
MaxPairRows == 3

MaxPairColumns == 4

PairSeries == {"up", "square", "even"}

InitPairs ==
    /\ \E n \in 0..MaxPairRows, series \in SeqsUpTo(PairSeries, MaxPairColumns) :
           data = SeriesData(n, series)
    /\ Idle

GeneratePairInsights ==
    /\ op = "init"
    /\ op' = "generateInsights"
    /\ args' = <<>>
    /\ result' = generateInsights(data)
    /\ UNCHANGED <<data, ui>>

NextPairs == GeneratePairInsights

SpecPairs == InitPairs /\ [][NextPairs]_vars

\* the places of the correlation insights in the result
CorrelationInsightsAt == {k \in 1..Len(result) : result[k].type = "correlation"}

\* the correlation r of a pair of columns
CorrelationOf(pair) == calculateCorrelation(data, pair[1], pair[2])

\* the pairs of two different columns among names with |r| > 0.5
StrongPairs(names) ==
    {pair \in names \X names :
        pair[1] # pair[2] /\ RGtQ(RAbs(CorrelationOf(pair)), Q(1, 2))}

\* the two columns of an insight, in no order
ColumnSet(insight) == {insight.columns[c] : c \in 1..Len(insight.columns)}

\* the correlation insights of the result are for pairs among strong, one
\* for a pair at most, and for all of strong when candidates <= 5
ReportsPairs(strong, candidates) ==
    /\ \A k \in CorrelationInsightsAt :
           /\ result[k].columns \in strong
           /\ result[k].confidence = RAbs(CorrelationOf(result[k].columns))
    /\ \A k \in CorrelationInsightsAt, m \in CorrelationInsightsAt :
           ColumnSet(result[k]) = ColumnSet(result[m]) => k = m
    /\ candidates <= 5 =>
           \A pair \in strong :
               \E k \in CorrelationInsightsAt : ColumnSet(result[k]) = {pair[1], pair[2]}

\* C22: every correlation insight generateInsights returns is for a pair of
\* two different numeric columns whose correlation r has |r| > 0.5, and its
\* confidence is |r|; no two correlation insights are for the same unordered
\* pair; and when the three passes find at most 5 insights, every pair of
\* numeric columns with |r| > 0.5 has its insight in the result.
C22_CorrelationInsightsAreTheStrongPairs ==
    op = "generateInsights" =>
        ReportsPairs(StrongPairs(NumericColumnNames), Len(CandidateInsights(data)))

\* C22 witness: of the pairs of four numeric columns, two or more are reported
\* and one, whose correlation is weaker but not 0, is not.
C22_Witness ==
    /\ op = "generateInsights"
    /\ Cardinality(NumericColumnNames) = 4
    /\ Cardinality(CorrelationInsightsAt) >= 2
    /\ Len(CandidateInsights(data)) <= 5
    /\ \E pair \in NumericColumnNames \X NumericColumnNames :
           /\ pair \notin StrongPairs(NumericColumnNames)
           /\ CorrelationOf(pair) # RZero

(***************************************************************************)
(* Aggregates: datasets over the columns g and v, grouped by g or not at   *)
(* all, with lists of aggregations of v.  The values of v are a number, a  *)
(* numeric text, a text that is no number, and null, which coerces to 0.   *)
(***************************************************************************)
MaxAggregateRows == 3

AggregateValuesG == {Str(<<"a">>), Str(<<"b">>)}

AggregateValuesV == {Num(1), Str(<<"3">>), Str(<<"x">>), Null}

RowsGV ==
    {<<Field(ColG, x), Field(ColV, y)>> : x \in AggregateValuesG, y \in AggregateValuesV}

AggregationOf(function) == [column |-> ColV, function |-> function]

AggregationLists ==
    {<<AggregationOf("sum"), AggregationOf("avg")>>,
     <<AggregationOf("count"), AggregationOf("min"), AggregationOf("max")>>,
     <<AggregationOf("max"), AggregationOf("avg"), AggregationOf("min"),
       AggregationOf("count"), AggregationOf("sum")>>}

InitAggregate ==
    /\ data \in SeqsUpTo(RowsGV, MaxAggregateRows)
    /\ Idle

AggregateGroups ==
    \E groupColumns \in {<<>>, <<ColG>>}, aggregations \in AggregationLists :
        /\ op = "init"
        /\ op' = "groupAndAggregate"
        /\ args' = <<groupColumns, aggregations>>
        /\ result' = groupAndAggregate(data, groupColumns, aggregations)
        /\ UNCHANGED <<data, ui>>

NextAggregate == AggregateGroups

SpecAggregate == InitAggregate /\ [][NextAggregate]_vars

\* the keys of the groups, in the order in which the dataset first has them
GroupKeys == Unique([i \in 1..Len(data) |-> GroupKey(data[i], args[1])])

\* the rows of the group r whose value in the column coerces to a number
GroupNumericRows(r, col) ==
    {i \in NumericRows(col) : GroupKey(data[i], args[1]) = GroupKeys[r]}

\* the integers that the values of the rows I coerce to
Coerced(I, col) == [j \in I |-> Number(Get(data[j], col)).n]

\* the field of the aggregation in the row r of the result
Aggregated(r, agg) == Get(result[r], AggregateName(agg))

\* the sum and the average of the integers val over the rows I
IsSumOrAverage(value, function, val, I) ==
    /\ function = "sum" => value = Num(SumOver(val, I))
    /\ function = "avg" =>
           value = (IF I = {} THEN Num(0) ELSE FromQ(Q(SumOver(val, I), Cardinality(I))))

\* C23: groupAndAggregate returns a row for each group, in which
\* `{column}_sum` is the sum of the values of the group's rows that coerce to
\* a number, 0 for none, and `{column}_avg` is that sum divided by their
\* number, 0 for none.
C23_SumAndAverageOfNumericValues ==
    op = "groupAndAggregate" =>
        /\ Len(result) = Len(GroupKeys)
        /\ \A r \in 1..Len(result), agg \in Range(args[2]) :
               IsSumOrAverage(Aggregated(r, agg), agg.function,
                              Coerced(GroupNumericRows(r, agg.column), agg.column),
                              GroupNumericRows(r, agg.column))

\* C23 witness: of two groups, one has rows but no number, with sum and
\* average 0, and the other has an average that is no integer.
C23_Witness ==
    /\ op = "groupAndAggregate"
    /\ Len(result) = 2
    /\ Len(data) = 3
    /\ GroupNumericRows(1, ColV) = {}
    /\ Aggregated(1, AggregationOf("sum")) = Num(0)
    /\ Aggregated(1, AggregationOf("avg")) = Num(0)
    /\ Aggregated(2, AggregationOf("avg")) = FromQ(Q(1, 2))
    /\ Aggregated(2, AggregationOf("sum")) = Num(1)

\* the number, the least and the greatest of the integers val over the rows I
IsCountOrExtreme(value, function, val, I) ==
    /\ function = "count" => value = Num(Cardinality(I))
    /\ function = "min" =>
           value = (IF I = {} THEN Inf
                    ELSE Num(CHOOSE m \in {val[j] : j \in I} : \A j \in I : m <= val[j]))
    /\ function = "max" =>
           value = (IF I = {} THEN NegInf
                    ELSE Num(CHOOSE m \in {val[j] : j \in I} : \A j \in I : m >= val[j]))

\* C24: in each row groupAndAggregate returns, `{column}_count` is the number
\* of rows of the group whose value coerces to a number, and `{column}_min`
\* and `{column}_max` are the least and the greatest of the coerced values,
\* +Infinity and -Infinity when the group has none.
C24_CountAndExtremesOfNumericValues ==
    op = "groupAndAggregate" =>
        /\ Len(result) = Len(GroupKeys)
        /\ \A r \in 1..Len(result), agg \in Range(args[2]) :
               IsCountOrExtreme(Aggregated(r, agg), agg.function,
                                Coerced(GroupNumericRows(r, agg.column), agg.column),
                                GroupNumericRows(r, agg.column))

\* C24 witness: of two groups, the first has a row but no number, so count
\* 0 and the sentinels, and the second counts the null that coerces to 0 and
\* the text "3".
C24_Witness ==
    /\ op = "groupAndAggregate"
    /\ Len(result) = 2
    /\ Len(data) = 3
    /\ Aggregated(1, AggregationOf("count")) = Num(0)
    /\ Aggregated(1, AggregationOf("min")) = Inf
    /\ Aggregated(1, AggregationOf("max")) = NegInf
    /\ Aggregated(2, AggregationOf("count")) = Num(2)
    /\ Aggregated(2, AggregationOf("min")) = Num(0)
    /\ Aggregated(2, AggregationOf("max")) = Num(3)

(***************************************************************************)
(* Operators: datasets over the column a, filtered by one rule.  The       *)
(* values and the rule values are finite numbers, texts and null.          *)
(***************************************************************************)
MaxOperatorRows == 2

OperatorValues == {Num(1), Num(5), Str(<<"1">>), Str(<<"a", "B", "1">>), Null}

OperatorRules ==
    {ScalarRule(operator, value, e) :
        operator \in {"equals", "contains", "greater", "less"},
        value \in {Num(1), Str(<<"1">>), Str(<<"A", "b">>), Str(<<"5">>), Null},
        e \in BOOLEAN}
        \cup {RangeRule(Num(1), Num(5), e) : e \in BOOLEAN}
        \cup {RangeRule(Num(5), Num(1), TRUE), RangeRule(Num(0), Num(1), TRUE)}

InitOperators ==
    /\ data \in SeqsUpTo(RowsA(OperatorValues), MaxOperatorRows)
    /\ Idle

ApplyRule ==
    \E filter \in OperatorRules :
        /\ op = "init"
        /\ op' = "applyFilters"
        /\ args' = <<<<filter>>>>
        /\ result' = applyFilters(data, <<filter>>)
        /\ UNCHANGED <<data, ui>>

NextOperators == ApplyRule

SpecOperators == InitOperators /\ [][NextOperators]_vars

\* the text has the part somewhere in it
HasPart(text, part) ==
    \E k \in 1..(Len(text) - Len(part) + 1) : SubSeq(text, k, k + Len(part) - 1) = part

\* a < b for two numbers, false when either is NaN (none is infinite here)
IsBelow(a, b) == a.t = "num" /\ b.t = "num" /\ a.n * b.d < b.n * a.d

\* a <= b for two numbers, false when either is NaN
IsAtMost(a, b) == a.t = "num" /\ b.t = "num" /\ a.n * b.d <= b.n * a.d

\* what the rule is specified to tell of a value
IsSpecifiedMatch(value, filter) ==
    CASE filter.operator = "equals" -> value = filter.value
      [] filter.operator = "contains" ->
           HasPart(toLowerCase(String(value)), toLowerCase(String(filter.value)))
      [] filter.operator = "greater" -> IsBelow(Number(filter.value), Number(value))
      [] filter.operator = "less" -> IsBelow(Number(value), Number(filter.value))
      [] filter.operator = "range" ->
           /\ IsAtMost(Number(filter.min), Number(value))
           /\ IsAtMost(Number(value), Number(filter.max))

\* C25: applyFilters with one enabled rule keeps exactly the rows whose value
\* matches as specified for the operator: equals on the same value without
\* coercion, contains on the lower-cased string forms, greater and less on
\* the numeric coercions of both sides and false when either is not a number,
\* range on min <= numeric coercion of the value <= max.
C25_OperatorsMatchAsSpecified ==
    (op = "applyFilters" /\ args[1][1].enabled) =>
        result = RowsAt(data, {i \in 1..Len(data) :
                                  IsSpecifiedMatch(Get(data[i], ColA), args[1][1])})

\* C25 witness: the rule equals 1 keeps the row that holds the number 1 and
\* drops the row that holds the text "1".
C25_Witness ==
    /\ op = "applyFilters"
    /\ args[1][1] = ScalarRule("equals", Num(1), TRUE)
    /\ data = <<<<Field(ColA, Str(<<"1">>))>>, <<Field(ColA, Num(1))>>>>
    /\ result = <<data[2]>>

(***************************************************************************)
(* Few values: datasets of up to MaxFewRows rows whose column v holds one  *)
(* value in the first row and another in all the rows after it, with       *)
(* findOutliers at its default threshold, computed in doubles.             *)
(***************************************************************************)
MaxFewRows == 10

FewValues == {Num(-9), Num(-8), Num(2), Str(<<"x">>)}

\* the dataset of n rows that holds first in its first row and rest in the others
FewData(n, first, rest) ==
    [i \in 1..n |-> <<Field(ColV, IF i = 1 THEN first ELSE rest)>>]

InitFew ==
    /\ \E n \in 0..MaxFewRows, first \in FewValues, rest \in FewValues :
           data = FewData(n, first, rest)
    /\ Idle

\* findOutliers(data, 'v'), the threshold left to its default
FindDefaultOutliers ==
    /\ op = "init"
    /\ op' = "findOutliers"
    /\ args' = <<ColV>>
    /\ result' = findOutliersDouble(data, ColV, QInt(DefaultThreshold))
    /\ UNCHANGED <<data, ui>>

NextFew == FindDefaultOutliers

SpecFew == InitFew /\ [][NextFew]_vars

\* C26: at the default threshold 3, findOutliers returns no row for a column
\* in which at most 10 values coerce to a number.
C26_NoOutlierAmongTenValues ==
    (op = "findOutliers" /\ Cardinality(NumericRows(args[1])) <= 10) => result = <<>>

\* the places of the categorical insights in the result
CategoricalInsightsAt == {k \in 1..Len(result) : result[k].type = "categorical"}

\* the distinct values of the column all have different string forms
HasDistinctForms(col) ==
    \A i \in 1..Len(col.values), j \in 1..Len(col.values) :
        i # j => String(col.values[i]) # String(col.values[j])

\* the categorical columns of a schema
CategoricalColumns(columns) ==
    {columns[c] : c \in {b \in 1..Len(columns) : columns[b].type = "categorical"}}

\* a categorical insight for one of the columns whose values have different
\* string forms counts 1 and comes with 2 rows at most, and there is no
\* categorical insight for 3 rows or more when all the columns are such
ReportsModeOfOne(columns) ==
    /\ \A k \in CategoricalInsightsAt, col \in columns :
           (result[k].columns = <<col.name>> /\ HasDistinctForms(col)) =>
               result[k].count = 1 /\ Len(data) <= 2
    /\ (Len(data) >= 3 /\ \A col \in columns : HasDistinctForms(col)) =>
           CategoricalInsightsAt = {}

\* C27: for a categorical column whose distinct values all have different
\* string forms the count of the dominant category is 1, and generateInsights
\* returns a categorical insight for it only if the dataset has at most 2
\* rows; it returns no categorical insight for a dataset of 3 rows or more
\* whose categorical columns are all such.
C27_DistinctFormsHaveModeOne ==
    op = "generateInsights" => ReportsModeOfOne(CategoricalColumns(analyzeData(data)))

\* C27 witness: a dataset of two rows gets a categorical insight, with the
\* count 1, for a column of two texts.
C27_Witness ==
    /\ op = "generateInsights"
    /\ Len(data) = 2
    /\ \E k \in CategoricalInsightsAt, col \in CategoricalColumns(analyzeData(data)) :
           /\ result[k].columns = <<col.name>>
           /\ HasDistinctForms(col)
           /\ result[k].count = 1

(***************************************************************************)
(* Field lists: datasets over the columns a and b with lists of computed   *)
(* fields s and t, whose expressions read columns, name the other field,   *)
(* or assign to the row; args[1] keeps the dataset as it was passed.       *)
(***************************************************************************)
MaxListRows == 2

MaxListFields == 2

ListExpressions ==
    {<<"a", " ", "+", " ", "1">>,
     <<"z", " ", "+", " ", "1">>,
     <<"s", " ", "+", " ", "1">>,
     RowChars \o <<".", "z", "=", "1">>}

ListFields == {[name |-> n, expression |-> e] : n \in FieldNames, e \in ListExpressions}

InitLists ==
    /\ data \in SeqsUpTo(RowsAB(FrameValuesA, FrameValuesB), MaxListRows)
    /\ Idle

ComputeList ==
    \E computedFields \in SeqsUpTo(ListFields, MaxListFields) :
        /\ op = "init"
        /\ op' = "addComputedFields"
        /\ args' = <<data, computedFields>>
        /\ result' = addComputedFields(data, computedFields)
        /\ data' = MapData(data, computedFields).input
        /\ UNCHANGED ui

NextLists == ComputeList

SpecLists == InitLists /\ [][NextLists]_vars

\* the names of the fields of the list are all different
HasDifferentNames(fields) ==
    \A k \in 1..Len(fields), m \in 1..Len(fields) : fields[k].name = fields[m].name => k = m

\* the value of the field when it is computed alone on the row
ValueAlone(row, field) == Get(addComputedFields(<<row>>, <<field>>)[1], field.name)

\* C28: the value addComputedFields computes for a field on a row is the
\* value of that field computed alone on the row as it was passed, whatever
\* fields of other names come before or after it in the list.
C28_FieldValueIsIndependentOfOtherFields ==
    (op = "addComputedFields" /\ HasDifferentNames(args[2])) =>
        /\ Len(result) = Len(args[1])
        /\ \A i \in 1..Len(args[1]), k \in 1..Len(args[2]) :
               Get(result[i], args[2][k].name) = ValueAlone(args[1][i], args[2][k])

(***************************************************************************)
(* Presentation: the page with its importer, its charts and the            *)
(* presentation modal.  The page renders the modal at every render, open   *)
(* or not (Dashboard.tsx:403-409), so currentSlide lives as long as the    *)
(* page; the modal's own insights are no part of the slide index and are   *)
(* left out.                                                               *)
(***************************************************************************)
MaxCharts == 3

\* the chart types the chart dialog is asked for here, two of ChartType
NewChartTypes == {"line", "kpi"}

\* the files uploaded here: JSON files of one row, and one of no array
PresentationFiles ==
    {[ext |-> "json", parsed |-> p] :
        p \in {NotArray} \cup {Array(d) : d \in {e \in ImportData : Len(e) = 1}}}

\* `New ${type.charAt(0).toUpperCase() + type.slice(1)} Chart`
NewChartTitle(type) == IF type = "line" THEN "New Line Chart" ELSE "New Kpi Chart"

\* the slides of the modal: the overview and one slide a chart
Slides == Len(charts) + 1

\* renderSlide ends: the slide is the overview, or charts[currentSlide - 1]
\* is a chart.  The modal calls renderSlide at every render of the page, and
\* for a slide with no chart chart.type raises a TypeError there, which
\* takes the page down.
PageIsUp == modal.currentSlide = 0 \/ modal.currentSlide - 1 < Len(charts)

\* the dialog is modal: while it is open the page behind it takes no click
PageTakesClicks == PageIsUp /\ ~modal.open

InitPresentation == data = <<>> /\ Idle

\* the button Present: shown with a dataset, disabled with no chart
Present ==
    /\ PageTakesClicks
    /\ Len(data) > 0
    /\ Len(charts) # 0
    /\ op' = "setIsPresentationMode"
    /\ args' = <<TRUE>>
    /\ result' = <<>>
    /\ modal' = [modal EXCEPT !.open = TRUE]
    /\ UNCHANGED <<data, schema, charts, isLoading, jsonInput, upload, panel, timers>>

\* onOpenChange(false): the button X, the key Escape
ClosePresentation ==
    /\ PageIsUp
    /\ modal.open
    /\ op' = "setIsPresentationMode"
    /\ args' = <<FALSE>>
    /\ result' = <<>>
    /\ modal' = [modal EXCEPT !.open = FALSE]
    /\ UNCHANGED <<data, schema, charts, isLoading, jsonInput, upload, panel, timers>>

\* nextSlide: the key ArrowRight while open, the button of the open dialog
nextSlide ==
    /\ PageIsUp
    /\ modal.open
    /\ op' = "nextSlide"
    /\ args' = <<>>
    /\ result' = <<>>
    /\ modal' = [modal EXCEPT !.currentSlide = (modal.currentSlide + 1) % Slides]
    /\ UNCHANGED <<data, schema, charts, isLoading, jsonInput, upload, panel, timers>>

\* prevSlide: the key ArrowLeft while open, the button of the open dialog
prevSlide ==
    /\ PageIsUp
    /\ modal.open
    /\ op' = "prevSlide"
    /\ args' = <<>>
    /\ result' = <<>>
    /\ modal' = [modal EXCEPT
                   !.currentSlide = (modal.currentSlide - 1 + Len(charts) + 1) % Slides]
    /\ UNCHANGED <<data, schema, charts, isLoading, jsonInput, upload, panel, timers>>

\* addChart(type) at the time now; the buttons that add a chart are shown
\* with a dataset
addChart ==
    \E type \in NewChartTypes, now \in Clock :
        /\ PageTakesClicks
        /\ Len(data) > 0
        /\ Len(charts) < MaxCharts
        /\ op' = "addChart"
        /\ args' = <<type>>
        /\ result' = <<>>
        /\ charts' = Append(charts, Chart(now, 0, type, NewChartTitle(type), NoAxis, NoAxis))
        /\ UNCHANGED <<data, schema, isLoading, jsonInput, upload, widgets>>

\* deleteChart(chartId), from the card of a chart of the page
deleteChart ==
    \E k \in 1..Len(charts) :
        /\ PageTakesClicks
        /\ op' = "deleteChart"
        /\ args' = <<charts[k].id>>
        /\ result' = <<>>
        /\ charts' = SelectSeq(charts, LAMBDA chart : chart.id # charts[k].id)
        /\ UNCHANGED <<data, schema, isLoading, jsonInput, upload, widgets>>

\* the importer of the page behind the dialog: the sample button and the
\* choice of a file
PresentationSample == PageTakesClicks /\ LoadSampleData

PresentationFileSelected ==
    \E file \in PresentationFiles : PageTakesClicks /\ SelectFile(file)

\* the content of the file arrives, whether the dialog is open or not
PresentationFileRead == PageIsUp /\ FileRead

NextPresentation ==
    \/ Present
    \/ ClosePresentation
    \/ nextSlide
    \/ prevSlide
    \/ addChart
    \/ deleteChart
    \/ PresentationSample
    \/ PresentationFileSelected
    \/ PresentationFileRead

SpecPresentation == InitPresentation /\ [][NextPresentation]_vars

\* C29: whenever the presentation modal is open, its current slide index is
\* within 0..charts.length, so that a chart slide is the slide of a chart of
\* the page.
C29_OpenSlideIsWithinCharts == modal.open => modal.currentSlide \in 0..Len(charts)

(***************************************************************************)
(* Insight panel: the page with its importer and the insight panel.  The   *)
(* panel gets the dataset of the page as its prop data at every render;    *)
(* the callback of setTimeout keeps the data of the render of the click.   *)
(***************************************************************************)
\* a dataset with an insight (two values of b in two rows) and one without
PanelFiles ==
    {[ext |-> "json", parsed |-> Array(d)] :
        d \in {<<<<Field(ColA, Num(1)), Field(ColB, Num(2))>>,
                 <<Field(ColA, Num(1)), Field(ColB, Str(<<"x">>))>>>>,
               <<<<Field(ColA, Num(1)), Field(ColB, Str(<<"x">>))>>>>}}

InitPanel == data = <<>> /\ Idle

\* generateAIInsights, from the button Generate Insights, which is disabled
\* while isGenerating and with no data: setIsGenerating(true) and setTimeout
generateAIInsights ==
    /\ ~panel.isGenerating
    /\ Len(data) # 0
    /\ op' = "generateAIInsights"
    /\ args' = <<>>
    /\ result' = <<>>
    /\ panel' = [panel EXCEPT !.isGenerating = TRUE]
    /\ timers' = Append(timers, data)
    /\ UNCHANGED <<data, schema, charts, isLoading, jsonInput, upload, modal>>

\* the callback of setTimeout, 2000 ms after the click
TimerFires ==
    /\ timers # <<>>
    /\ op' = "setTimeout"
    /\ args' = <<Head(timers)>>
    /\ result' = generateInsights(Head(timers))
    /\ panel' = [insights |-> generateInsights(Head(timers)), isGenerating |-> FALSE]
    /\ timers' = Tail(timers)
    /\ UNCHANGED <<data, schema, charts, isLoading, jsonInput, upload, modal>>

PanelFileSelected == \E file \in PanelFiles : SelectFile(file)

NextPanel ==
    \/ generateAIInsights
    \/ TimerFires
    \/ LoadSampleData
    \/ PanelFileSelected
    \/ FileRead

SpecPanel == InitPanel /\ [][NextPanel]_vars

\* C30: whenever no generation is in progress and insights are displayed,
\* the displayed insights are generateInsights of the current dataset of the
\* page.
C30_ShownInsightsAreOfCurrentData ==
    (~panel.isGenerating /\ panel.insights # <<>>)
        => panel.insights = generateInsights(data)

\* a generation is in progress exactly while its one timer waits, whose
\* callback ends it
GenerationHasItsTimer == panel.isGenerating <=> Len(timers) = 1

=============================================================================
